---- MODULE Spec2Model ----
(***************************************************************************)
(* mangrove (mgv): workspaces of git worktrees.                            *)
(*                                                                         *)
(* Part I  - Workspace Lifecycle Manager: CreateWorkspace, RemoveWorkspace *)
(*           and cleanupWorkspace over the worktree/branch state of the    *)
(*           profile's origin repositories (specification SpecWs).         *)
(* Part II - Apply Transaction Engine: the apply command's per-repository  *)
(*           body, applyStash and applyMerge over one origin repository    *)
(*           and its worktree (specification SpecApply).                   *)
(*                                                                         *)
(* The git primitives of git.go shell out to git; each is modelled by what *)
(* git does to the repository state it reads and writes.  A primitive      *)
(* fails exactly when git refuses the command in that state (branch        *)
(* exists, unknown base, locked worktree, unmerged index, empty stash,     *)
(* ...); the one failure supplied from outside the repository state is the *)
(* return checkout of applyMerge in DoApplyMergeReturnFails.               *)
(***************************************************************************)
EXTENDS Integers, Sequences, FiniteSets, TLC

\* ------------------------------------------------------------------ bounds
MaxRepos == 2      \* repositories in the profile
MaxWs == 1         \* workspace names in use

\* ----------------------------------------------------------- configuration
\* profile.Repos, in profile order: repository i of the profile
Repos == 1..MaxRepos

WsNamePool == <<"ws-a", "ws-b", "ws-c">>
WsNames == {WsNamePool[i] : i \in 1..MaxWs}

\* Repo.DefaultBase as written in the config ("" = not set)
DefaultBasePool == <<"main", "", "dev", "main", "">>
RepoDefaultBase(r) == DefaultBasePool[((r - 1) % Len(DefaultBasePool)) + 1]

\* branches every origin repository starts with
OriginBranches == {"main", "dev"}

\* profile.Hooks.PostCreate: the repository each hook names; 0 names a
\* repository that is not in the profile (its hook directory never exists)
PostCreate == <<1, 0, MaxRepos>>

\* (r *Repo) GetDefaultBase, on the configured default_base
GetDefaultBase(defaultBase) == IF defaultBase /= "" THEN defaultBase ELSE "main"

VARIABLES
    wsDirs,      \* workspace names whose directory base_dir/profile/<ws> exists
    wtDirs,      \* <<ws, r>>: the directory <ws>/<repo r> exists
    worktrees,   \* [r -> workspace names whose worktree path is registered in origin r]
    locked,      \* [r -> registered worktrees under `git worktree lock`]
    branches,    \* [r -> local branches of origin r]
    wtHeads,     \* <<ws, r, b>>: the registered worktree <ws>/<r> is on branch b
    changed,     \* <<ws, r>>: worktrees with a non-empty change set
    aheadBrs,    \* <<r, b>>: branch b of origin r has commits not merged into HEAD
    hooksRun,    \* hook commands executed by the last CreateWorkspace, in order
    calls,       \* backend calls made by the last operation, in order
    last         \* the last operation and what it returned

wsVars == <<wsDirs, wtDirs, worktrees, locked, branches, wtHeads, changed, aheadBrs,
           hooksRun>>

\* the apply command's repository (Part II)
VARIABLES
    oHead,       \* the origin's checked-out branch
    oBranches,   \* local branches of the repository
    tips,        \* [branch -> commits reachable from it] ({} when absent)
    oChanges,    \* the origin's change set (git status --porcelain paths)
    oUnmerged,   \* the origin's index holds unmerged entries
    wtExists,    \* the worktree directory exists
    wtChanges,   \* the worktree's change set
    wtUnmerged,  \* the worktree's index holds unmerged entries
    stash        \* the stash list, latest first

applyVars == <<oHead, oBranches, tips, oChanges, oUnmerged, wtExists, wtChanges,
               wtUnmerged, stash>>

\* one run of the apply command over the profile (Part III)
VARIABLES
    batch,       \* [r -> the repository and worktree state of profile repository r]
    batchSel,    \* the repositories named with --repo ({} = no filter)
    batchLog,    \* what the last run did with each repository, in the order visited
    batchErr,    \* the error the last run's RunE returned
    batchRuns,   \* how many times apply was run over the profile
    report       \* the rows the last status report showed, one per repository

batchVars == <<batch, batchSel, batchLog, batchErr, batchRuns, report>>

\* the configuration and the selection helpers (Part IV)
VARIABLES
    profiles,    \* Config.Profiles: [profile name -> its list of repositories]
    cfgLast,     \* the last configuration call and the error it returned
    items,       \* the list handed to reorderWithDefault
    defaultItem, \* the default item handed to reorderWithDefault
    ordered,     \* what the last reorderWithDefault call returned
    wsInfo,      \* the workspace whose label is produced
    label,       \* the label handed to ParseWorkspaceLabel
    parsed       \* what the last ParseWorkspaceLabel call returned

configVars == <<profiles, cfgLast>>
reorderVars == <<items, defaultItem, ordered>>
labelVars == <<wsInfo, label, parsed>>
libVars == <<configVars, reorderVars, labelVars>>


\* ---------------------------------------------------------------- records
NoErr == [kind |-> "nil", repo |-> 0]
Err(k, r) == [kind |-> k, repo |-> r]

Call(op, r, arg, ok) == [op |-> op, repo |-> r, arg |-> arg, ok |-> ok, heard |-> TRUE]

\* a call whose error the code discards (`_ = ...`): the caller is told
\* nothing when it fails
Discarded(c) == [c EXCEPT !.heard = FALSE]

\* what the last step was: an operation of the tool with its arguments and
\* result, or something the developer did ("user")
LastWs(op, ws, err, deleteBranch, force) ==
    [op |-> op, ws |-> ws, err |-> err, deleteBranch |-> deleteBranch, force |-> force,
     method |-> "", base |-> "", newBranch |-> "", outcome |-> ""]
LastApply(op, method, base, newBranch, outcome, err) ==
    [op |-> op, ws |-> "", err |-> err, deleteBranch |-> FALSE, force |-> FALSE,
     method |-> method, base |-> base, newBranch |-> newBranch, outcome |-> outcome]
Idle == LastWs("user", "", NoErr, FALSE, FALSE)

\* the lifecycle state as one value, threaded through the primitives
WsState == [dirs |-> wsDirs, wt |-> wtDirs, reg |-> worktrees, lock |-> locked,
            br |-> branches, head |-> wtHeads, chg |-> changed, ahead |-> aheadBrs]

\* ------------------------------------------------- git primitives (git.go)
\* git -C <repo r> worktree add <ws>/<r> -b <branch> <base>
WorktreeAddOk(s, r, ws, branch, base) ==
    /\ base \in s.br[r]          \* the base must name a commit
    /\ branch \notin s.br[r]     \* -b refuses an existing branch
    /\ <<ws, r>> \notin s.wt     \* the path must not exist
    /\ ws \notin s.reg[r]        \* nor be an already registered worktree

\* a worktree add without -b: the worktree checks out the base branch itself
WorktreeAdd_OnBase(s, r, ws, branch, base) ==
    IF WorktreeAddOk(s, r, ws, branch, base)
    THEN [ok |-> TRUE,
          s |-> [s EXCEPT !.reg[r] = @ \cup {ws},
                          !.head = @ \cup {<<ws, r, base>>},
                          !.wt = @ \cup {<<ws, r>>}]]
    ELSE [ok |-> FALSE, s |-> s]

WorktreeAdd(s, r, ws, branch, base) ==
    IF WorktreeAddOk(s, r, ws, branch, base)
    THEN [ok |-> TRUE,
          s |-> [s EXCEPT !.br[r] = @ \cup {branch},
                          !.reg[r] = @ \cup {ws},
                          !.head = @ \cup {<<ws, r, branch>>},
                          !.wt = @ \cup {<<ws, r>>}]]
    ELSE [ok |-> FALSE, s |-> s]

\* git -C <repo r> worktree remove <ws>/<r> [--force]
WorktreeRemoveOk(s, r, ws, force) ==
    /\ ws \in s.reg[r]                       \* "is not a working tree" otherwise
    /\ ws \notin s.lock[r]                   \* a locked worktree needs -f -f
    /\ (force \/ <<ws, r>> \notin s.chg)     \* a dirty worktree needs --force

WorktreeRemove(s, r, ws, force) ==
    IF WorktreeRemoveOk(s, r, ws, force)
    THEN [ok |-> TRUE,
          s |-> [s EXCEPT !.reg[r] = @ \ {ws},
                          !.head = {h \in @ : ~(h[1] = ws /\ h[2] = r)},
                          !.wt = @ \ {<<ws, r>>},
                          !.chg = @ \ {<<ws, r>>}]]
    ELSE [ok |-> FALSE, s |-> s]

\* git -C <repo r> branch -d|-D <branch>; git refuses to delete a branch
\* that is checked out in a registered worktree, and -d refuses a branch
\* that is not fully merged
BranchDelete(s, r, branch, force) ==
    IF /\ branch \in s.br[r]
       /\ ~\E h \in s.head : h[2] = r /\ h[3] = branch
       /\ (force \/ <<r, branch>> \notin s.ahead)
    THEN [ok |-> TRUE, s |-> [s EXCEPT !.br[r] = @ \ {branch},
                                       !.ahead = @ \ {<<r, branch>>}]]
    ELSE [ok |-> FALSE, s |-> s]

\* len(lines of git status --porcelain) in the worktree <ws>/<r>
StatusChangedCount(s, r, ws) == IF <<ws, r>> \in s.chg THEN 1 ELSE 0

\* os.RemoveAll(wsPath): the directory tree goes, git's registrations stay
RemoveAll(s, ws) ==
    [s EXCEPT !.dirs = @ \ {ws},
              !.wt = {p \in @ : p[1] /= ws},
              !.chg = {p \in @ : p[1] /= ws}]

\* ------------------------------------------- lifecycle manager: CreateWorkspace, RemoveWorkspace
\* cleanupWorkspace: for each repo whose directory exists, WorktreeRemove
\* with force (error dropped); then os.RemoveAll (error dropped)
RECURSIVE cleanupLoop(_, _, _)
cleanupLoop(acc, ws, i) ==
    IF i > MaxRepos THEN acc
    ELSE IF <<ws, i>> \in acc.s.wt
         THEN LET res == WorktreeRemove(acc.s, i, ws, TRUE)
              IN cleanupLoop([s |-> res.s,
                              calls |-> Append(acc.calls,
                                               Discarded(Call("WorktreeRemove", i, "force", res.ok)))],
                             ws, i + 1)
         ELSE cleanupLoop(acc, ws, i + 1)

\* a cleanup that removes the worktrees but leaves the workspace directory
cleanupWorkspace_KeepsDir(s, cs, ws) ==
    LET done == cleanupLoop([s |-> s, calls |-> cs], ws, 1)
    IN [s |-> done.s, calls |-> done.calls]

\* a cleanup that deletes the directory but deregisters nothing
cleanupWorkspace_DirOnly(s, cs, ws) ==
    [s |-> RemoveAll(s, ws), calls |-> Append(cs, Discarded(Call("RemoveAll", 0, ws, TRUE)))]

cleanupWorkspace(s, cs, ws) ==
    LET done == cleanupLoop([s |-> s, calls |-> cs], ws, 1)
    IN [s |-> RemoveAll(done.s, ws),
        calls |-> Append(done.calls, Discarded(Call("RemoveAll", 0, ws, TRUE)))]

\* a hook run that stops at the first failing hook
RECURSIVE runHooks_StopAtFailure(_, _, _, _)
runHooks_StopAtFailure(s, ws, hookFails, j) ==
    IF j > Len(PostCreate) THEN <<>>
    ELSE IF <<ws, PostCreate[j]>> \notin s.wt
         THEN runHooks_StopAtFailure(s, ws, hookFails, j + 1)
         ELSE IF j \in hookFails
         THEN <<[hook |-> j, dir |-> <<ws, PostCreate[j]>>, ok |-> FALSE]>>
         ELSE <<[hook |-> j, dir |-> <<ws, PostCreate[j]>>, ok |-> TRUE]>>
              \o runHooks_StopAtFailure(s, ws, hookFails, j + 1)

\* the post_create hooks: a hook whose directory is missing is skipped, the
\* others run in order; a failing hook is only warned about
RECURSIVE runHooks(_, _, _, _)
runHooks(s, ws, hookFails, j) ==
    IF j > Len(PostCreate) THEN <<>>
    ELSE IF <<ws, PostCreate[j]>> \notin s.wt
         THEN runHooks(s, ws, hookFails, j + 1)
         ELSE <<[hook |-> j, dir |-> <<ws, PostCreate[j]>>, ok |-> j \notin hookFails]>>
              \o runHooks(s, ws, hookFails, j + 1)

\* a worktree loop that branches from the repository's default base whatever
\* baseBranches says
RECURSIVE createLoop_IgnoresMap(_, _, _, _)
createLoop_IgnoresMap(acc, ws, baseBranches, i) ==
    IF i > MaxRepos THEN [s |-> acc.s, calls |-> acc.calls, err |-> NoErr]
    ELSE LET base == GetDefaultBase(RepoDefaultBase(i))
             res == WorktreeAdd(acc.s, i, ws, ws, base)
             cs == Append(acc.calls, Call("WorktreeAdd", i, base, res.ok))
         IN IF ~res.ok
            THEN LET cl == cleanupWorkspace(res.s, cs, ws)
                 IN [s |-> cl.s, calls |-> cl.calls, err |-> Err("worktree", i)]
            ELSE createLoop_IgnoresMap([s |-> res.s, calls |-> cs], ws, baseBranches, i + 1)

\* a worktree loop that returns the error at once, leaving in place what the
\* call has created so far
RECURSIVE createLoop_NoCleanup(_, _, _, _)
createLoop_NoCleanup(acc, ws, baseBranches, i) ==
    IF i > MaxRepos THEN [s |-> acc.s, calls |-> acc.calls, err |-> NoErr]
    ELSE LET base == IF i \in DOMAIN baseBranches THEN baseBranches[i]
                     ELSE GetDefaultBase(RepoDefaultBase(i))
             res == WorktreeAdd(acc.s, i, ws, ws, base)
             cs == Append(acc.calls, Call("WorktreeAdd", i, base, res.ok))
         IN IF ~res.ok
            THEN [s |-> res.s, calls |-> cs, err |-> Err("worktree", i)]
            ELSE createLoop_NoCleanup([s |-> res.s, calls |-> cs], ws, baseBranches, i + 1)

\* the worktree loop of CreateWorkspace, from repository i on
RECURSIVE createLoop(_, _, _, _)
createLoop(acc, ws, baseBranches, i) ==
    IF i > MaxRepos THEN [s |-> acc.s, calls |-> acc.calls, err |-> NoErr]
    ELSE LET base == IF i \in DOMAIN baseBranches THEN baseBranches[i]
                     ELSE GetDefaultBase(RepoDefaultBase(i))
             res == WorktreeAdd(acc.s, i, ws, ws, base)
             cs == Append(acc.calls, Call("WorktreeAdd", i, base, res.ok))
         IN IF ~res.ok
            THEN LET cl == cleanupWorkspace(res.s, cs, ws)
                 IN [s |-> cl.s, calls |-> cl.calls, err |-> Err("worktree", i)]
            ELSE createLoop([s |-> res.s, calls |-> cs], ws, baseBranches, i + 1)

\* a creation that does not look for an existing workspace directory first
CreateWorkspace_NoExistenceCheck(s, ws, baseBranches, hookFails) ==
    LET made == [s EXCEPT !.dirs = @ \cup {ws}]
        out == createLoop([s |-> made, calls |-> <<>>], ws, baseBranches, 1)
    IN [s |-> out.s, calls |-> out.calls, err |-> out.err,
        hooks |-> IF out.err = NoErr THEN runHooks(out.s, ws, hookFails, 1)
                  ELSE <<>>]

\* a creation that runs the hooks on whatever worktrees the loop created,
\* before it looks at the loop's error
CreateWorkspace_HooksFirst(s, ws, baseBranches, hookFails) ==
    IF ws \in s.dirs
    THEN [s |-> s, calls |-> <<>>, hooks |-> <<>>, err |-> Err("exists", 0)]
    ELSE LET made == [s EXCEPT !.dirs = @ \cup {ws}]
             raw == createLoop_NoCleanup([s |-> made, calls |-> <<>>], ws, baseBranches, 1)
             out == createLoop([s |-> made, calls |-> <<>>], ws, baseBranches, 1)
         IN [s |-> out.s, calls |-> out.calls, err |-> out.err,
             hooks |-> runHooks(raw.s, ws, hookFails, 1)]

\* CreateWorkspace(cfg, profile, profileName, name, baseBranches)
CreateWorkspace(s, ws, baseBranches, hookFails) ==
    IF ws \in s.dirs
    THEN [s |-> s, calls |-> <<>>, hooks |-> <<>>, err |-> Err("exists", 0)]
    ELSE LET made == [s EXCEPT !.dirs = @ \cup {ws}]     \* os.MkdirAll
             out == createLoop([s |-> made, calls |-> <<>>], ws, baseBranches, 1)
         IN [s |-> out.s, calls |-> out.calls, err |-> out.err,
             hooks |-> IF out.err = NoErr THEN runHooks(out.s, ws, hookFails, 1)
                       ELSE <<>>]

\* the uncommitted-changes guard of RemoveWorkspace: the first repository, in
\* profile order, whose existing worktree has changes (0 if none)
\* a guard that looks at the first repository's worktree only
firstChanged_FirstOnly(s, ws, i) ==
    IF <<ws, 1>> \in s.wt /\ StatusChangedCount(s, 1, ws) > 0 THEN 1 ELSE 0

RECURSIVE firstChanged(_, _, _)
firstChanged(s, ws, i) ==
    IF i > MaxRepos THEN 0
    ELSE IF <<ws, i>> \in s.wt /\ StatusChangedCount(s, i, ws) > 0 THEN i
    ELSE firstChanged(s, ws, i + 1)

\* a removal that asks for the branch to be deleted whether or not the
\* worktree could be removed
RECURSIVE removeLoop_DeletesAnyway(_, _, _, _, _)
removeLoop_DeletesAnyway(acc, ws, deleteBranch, force, i) ==
    IF i > MaxRepos THEN acc
    ELSE IF <<ws, i>> \notin acc.s.wt
         THEN removeLoop_DeletesAnyway(acc, ws, deleteBranch, force, i + 1)
         ELSE LET rm == WorktreeRemove(acc.s, i, ws, force)
                  c1 == Append(acc.calls,
                               Call("WorktreeRemove", i, IF force THEN "force" ELSE "", rm.ok))
                  bd == BranchDelete(rm.s, i, ws, force)
              IN IF deleteBranch
                 THEN removeLoop_DeletesAnyway(
                          [s |-> bd.s,
                           calls |-> Append(c1, Call("BranchDelete", i, ws, bd.ok))],
                          ws, deleteBranch, force, i + 1)
                 ELSE removeLoop_DeletesAnyway([s |-> rm.s, calls |-> c1], ws, deleteBranch,
                                               force, i + 1)

\* the per-repository loop of RemoveWorkspace, from repository i on
RECURSIVE removeLoop(_, _, _, _, _)
removeLoop(acc, ws, deleteBranch, force, i) ==
    IF i > MaxRepos THEN acc
    ELSE IF <<ws, i>> \notin acc.s.wt
         THEN removeLoop(acc, ws, deleteBranch, force, i + 1)
         ELSE LET rm == WorktreeRemove(acc.s, i, ws, force)
                  c1 == Append(acc.calls,
                               Call("WorktreeRemove", i, IF force THEN "force" ELSE "", rm.ok))
              IN IF ~rm.ok
                 THEN removeLoop([s |-> rm.s, calls |-> c1], ws, deleteBranch, force, i + 1)
                 ELSE IF deleteBranch
                      THEN LET bd == BranchDelete(rm.s, i, ws, force)
                           IN removeLoop([s |-> bd.s,
                                          calls |-> Append(c1, Call("BranchDelete", i, ws, bd.ok))],
                                         ws, deleteBranch, force, i + 1)
                      ELSE removeLoop([s |-> rm.s, calls |-> c1], ws, deleteBranch, force, i + 1)

\* a removal that gives up at the first worktree it cannot remove
RECURSIVE removeLoop_Abort(_, _, _, _, _)
removeLoop_Abort(acc, ws, deleteBranch, force, i) ==
    IF i > MaxRepos THEN acc
    ELSE IF <<ws, i>> \notin acc.s.wt
         THEN removeLoop_Abort(acc, ws, deleteBranch, force, i + 1)
         ELSE LET rm == WorktreeRemove(acc.s, i, ws, force)
                  c1 == Append(acc.calls,
                               Call("WorktreeRemove", i, IF force THEN "force" ELSE "", rm.ok))
                  bd == BranchDelete(rm.s, i, ws, force)
              IN IF ~rm.ok THEN [s |-> rm.s, calls |-> c1]
                 ELSE IF deleteBranch
                      THEN removeLoop_Abort([s |-> bd.s,
                                             calls |-> Append(c1, Call("BranchDelete", i, ws, bd.ok))],
                                            ws, deleteBranch, force, i + 1)
                      ELSE removeLoop_Abort([s |-> rm.s, calls |-> c1], ws, deleteBranch,
                                            force, i + 1)

RemoveWorkspace_Abort(s, ws, deleteBranch, force) ==
    IF ws \notin s.dirs
    THEN [s |-> s, calls |-> <<>>, err |-> Err("notfound", 0)]
    ELSE IF ~force /\ firstChanged(s, ws, 1) /= 0
    THEN [s |-> s, calls |-> <<>>, err |-> Err("uncommitted", firstChanged(s, ws, 1))]
    ELSE LET done == removeLoop_Abort([s |-> s, calls |-> <<>>], ws, deleteBranch, force, 1)
         IN [s |-> RemoveAll(done.s, ws),
             calls |-> Append(done.calls, Call("RemoveAll", 0, ws, TRUE)),
             err |-> NoErr]

\* a removal for which a branch that cannot be deleted is an error: it
\* returns at once, leaving the other repositories and the directory
RECURSIVE removeLoop_BranchFatal(_, _, _, _, _)
removeLoop_BranchFatal(acc, ws, deleteBranch, force, i) ==
    IF i > MaxRepos THEN acc
    ELSE IF <<ws, i>> \notin acc.s.wt
         THEN removeLoop_BranchFatal(acc, ws, deleteBranch, force, i + 1)
         ELSE LET rm == WorktreeRemove(acc.s, i, ws, force)
                  c1 == Append(acc.calls,
                               Call("WorktreeRemove", i, IF force THEN "force" ELSE "", rm.ok))
                  bd == BranchDelete(rm.s, i, ws, force)
                  c2 == Append(c1, Call("BranchDelete", i, ws, bd.ok))
              IN IF ~rm.ok
                 THEN removeLoop_BranchFatal([acc EXCEPT !.s = rm.s, !.calls = c1],
                                             ws, deleteBranch, force, i + 1)
                 ELSE IF ~deleteBranch
                 THEN removeLoop_BranchFatal([acc EXCEPT !.s = rm.s, !.calls = c1],
                                             ws, deleteBranch, force, i + 1)
                 ELSE IF ~bd.ok
                 THEN [s |-> bd.s, calls |-> c2, err |-> Err("branch", i)]
                 ELSE removeLoop_BranchFatal([acc EXCEPT !.s = bd.s, !.calls = c2],
                                             ws, deleteBranch, force, i + 1)

RemoveWorkspace_BranchFatal(s, ws, deleteBranch, force) ==
    IF ws \notin s.dirs
    THEN [s |-> s, calls |-> <<>>, err |-> Err("notfound", 0)]
    ELSE IF ~force /\ firstChanged(s, ws, 1) /= 0
    THEN [s |-> s, calls |-> <<>>, err |-> Err("uncommitted", firstChanged(s, ws, 1))]
    ELSE LET done == removeLoop_BranchFatal([s |-> s, calls |-> <<>>, err |-> NoErr],
                                            ws, deleteBranch, force, 1)
         IN IF done.err /= NoErr THEN done
            ELSE [s |-> RemoveAll(done.s, ws),
                  calls |-> Append(done.calls, Call("RemoveAll", 0, ws, TRUE)),
                  err |-> NoErr]

\* a removal that does not look for the workspace directory first
RemoveWorkspace_NoExistenceCheck(s, ws, deleteBranch, force) ==
    IF ~force /\ firstChanged(s, ws, 1) /= 0
    THEN [s |-> s, calls |-> <<>>, err |-> Err("uncommitted", firstChanged(s, ws, 1))]
    ELSE LET done == removeLoop([s |-> s, calls |-> <<>>], ws, deleteBranch, force, 1)
         IN [s |-> RemoveAll(done.s, ws),
             calls |-> Append(done.calls, Call("RemoveAll", 0, ws, TRUE)),
             err |-> NoErr]

\* RemoveWorkspace(cfg, profile, profileName, name, deleteBranch, force)
RemoveWorkspace(s, ws, deleteBranch, force) ==
    IF ws \notin s.dirs
    THEN [s |-> s, calls |-> <<>>, err |-> Err("notfound", 0)]
    ELSE IF ~force /\ firstChanged(s, ws, 1) /= 0
    THEN [s |-> s, calls |-> <<>>, err |-> Err("uncommitted", firstChanged(s, ws, 1))]
    ELSE LET done == removeLoop([s |-> s, calls |-> <<>>], ws, deleteBranch, force, 1)
         IN [s |-> RemoveAll(done.s, ws),
             calls |-> Append(done.calls, Call("RemoveAll", 0, ws, TRUE)),
             err |-> NoErr]

\* ------------------------------------------------------ lifecycle actions
\* base branches the caller may pass for a repository; "gone" names no branch
BaseChoices == {"main", "dev", "gone"}

\* the baseBranches maps the create command builds: every repository mapped
\* (precomputed defaults or picks), or the map left without an entry
BaseMaps == {<<>>} \cup UNION {[{r} -> BaseChoices] : r \in Repos}
            \cup {[r \in Repos |-> b] : b \in BaseChoices}

SetWs(out) ==
    /\ wsDirs' = out.s.dirs
    /\ wtDirs' = out.s.wt
    /\ worktrees' = out.s.reg
    /\ locked' = out.s.lock
    /\ branches' = out.s.br
    /\ wtHeads' = out.s.head
    /\ changed' = out.s.chg
    /\ aheadBrs' = out.s.ahead
    /\ calls' = out.calls
    /\ UNCHANGED <<applyVars, batchVars, libVars>>

\* an input the call never reads is held at one value: baseBranches when the
\* workspace exists already, the hook outcomes when no hook runs
DoCreateWorkspace ==
    \E ws \in WsNames :
    \E bm \in IF ws \in wsDirs THEN {<<>>} ELSE BaseMaps :
    \E hf \in IF CreateWorkspace(WsState, ws, bm, {}).hooks = <<>> THEN {{}}
              ELSE SUBSET (1..Len(PostCreate)) :
        LET out == CreateWorkspace(WsState, ws, bm, hf)
        IN /\ hf \subseteq {h.hook : h \in {out.hooks[j] : j \in DOMAIN out.hooks}}
           /\ SetWs(out)
           /\ hooksRun' = out.hooks
           /\ last' = LastWs("create", ws, out.err, FALSE, FALSE)

DoRemoveWorkspace ==
    \E ws \in WsNames, deleteBranch \in BOOLEAN, force \in BOOLEAN :
        LET out == RemoveWorkspace(WsState, ws, deleteBranch, force)
        IN /\ SetWs(out)
           /\ hooksRun' = <<>>
           /\ last' = LastWs("remove", ws, out.err, deleteBranch, force)


\* the developer edits a file in a worktree
UserEdit ==
    \E p \in wtDirs \ changed :
        /\ changed' = changed \cup {p}
        /\ calls' = <<>> /\ hooksRun' = <<>> /\ last' = Idle
        /\ UNCHANGED <<wsDirs, wtDirs, worktrees, locked, branches, wtHeads, aheadBrs>>
        /\ UNCHANGED <<applyVars, batchVars, libVars>>

\* the worktree the developer makes commits in: the first repository's, in
\* the first workspace
CommitSites == {<<WsNamePool[1], 1>>}

\* the developer commits the changes of a worktree on its branch
UserCommit ==
    \E p \in changed \cap CommitSites, h \in wtHeads :
        /\ h[1] = p[1] /\ h[2] = p[2]
        /\ changed' = changed \ {p}
        /\ aheadBrs' = aheadBrs \cup {<<h[2], h[3]>>}
        /\ calls' = <<>> /\ hooksRun' = <<>> /\ last' = Idle
        /\ UNCHANGED <<wsDirs, wtDirs, worktrees, locked, branches, wtHeads>>
        /\ UNCHANGED <<applyVars, batchVars, libVars>>

\* the developer runs git worktree lock on a worktree
UserLock ==
    \E p \in wtDirs :
        /\ p[1] \in worktrees[p[2]] \ locked[p[2]]
        /\ locked' = [locked EXCEPT ![p[2]] = @ \cup {p[1]}]
        /\ calls' = <<>> /\ hooksRun' = <<>> /\ last' = Idle
        /\ UNCHANGED <<wsDirs, wtDirs, worktrees, branches, wtHeads, changed, aheadBrs>>
        /\ UNCHANGED <<applyVars, batchVars, libVars>>

\* ========================================================================
\* Part II - the apply command: one origin repository and the worktree the
\* workspace holds for it.  Origin and worktree share one .git: branches,
\* commits and the stash list (refs/stash) are common to both.
\* ========================================================================
WtBranch == "feat"              \* the workspace name = the worktree's branch
DefaultNewBranch == "apply/feat"   \* fmt.Sprintf("apply/%s", wsName)
ApplyDefaultBase == ""          \* the repository's default_base in the config
BranchNames == {"main", "dev", WtBranch, DefaultNewBranch}

\* files: README.md is tracked, new.txt is not
Tracked == {"README.md"}
Files == {"README.md", "new.txt"}
\* commits beyond the initial one: cw is made in the worktree, cm and cn in
\* the origin; cw and cm rewrite README.md, cn adds another file
Commits == {"cw", "cm", "cn"}
Readme(cs) == cs \cap {"cw", "cm"}

MaxStash == 1      \* stash entries the developer makes by hand

GitState == [head |-> oHead, brs |-> oBranches, tips |-> tips, oChg |-> oChanges,
             oUnm |-> oUnmerged, wt |-> wtExists, wChg |-> wtChanges,
             wUnm |-> wtUnmerged, stash |-> stash]

Ok(g) == [ok |-> TRUE, g |-> g]
Fail(g) == [ok |-> FALSE, g |-> g]

\* git -C <wtDir> stash push -m <msg>: saves the tracked modifications only
\* (no --include-untracked); with nothing to save it prints "No local
\* changes to save" and exits 0
StashPush(g, msg) ==
    LET saved == g.wChg \cap Tracked
    IN IF ~g.wt \/ g.wUnm THEN Fail(g)
       ELSE IF saved = {} THEN Ok(g)
       ELSE Ok([g EXCEPT !.wChg = @ \ saved,
                         !.stash = <<[files |-> saved, parent |-> g.tips[WtBranch],
                                      msg |-> msg]>> \o @])

\* git -C <path> stash pop: applies stash@{0}, the latest entry of the shared
\* list, to the working tree at path and drops it; on a conflict the entry
\* stays and the index is left unmerged
StashPop(g, path) ==
    LET e == Head(g.stash)
        atOrigin == path = "origin"
        chg == IF atOrigin THEN g.oChg ELSE g.wChg
        unm == IF atOrigin THEN g.oUnm ELSE g.wUnm
        here == IF atOrigin THEN g.tips[g.head] ELSE g.tips[WtBranch]
        applied == IF atOrigin THEN [g EXCEPT !.oChg = @ \cup e.files]
                   ELSE [g EXCEPT !.wChg = @ \cup e.files]
    IN IF g.stash = <<>> THEN Fail(g)                 \* "No stash entries found"
       ELSE IF unm THEN Fail(g)
       ELSE IF e.files \cap chg /= {} THEN Fail(g)    \* local changes in the way
       ELSE IF Readme(here) /= Readme(e.parent)
       THEN Fail(IF atOrigin THEN [applied EXCEPT !.oUnm = TRUE]
                 ELSE [applied EXCEPT !.wUnm = TRUE])
       ELSE Ok([applied EXCEPT !.stash = Tail(@)])

\* a checkout in the origin is refused while the index is unmerged, and when
\* a locally modified file differs between the two branches
SwitchBlocked(g, target) ==
    \/ g.oUnm
    \/ (g.oChg \cap Tracked /= {} /\ Readme(g.tips[target]) /= Readme(g.tips[g.head]))

\* git -C <repoPath> checkout -b <newBranch> <base>
CheckoutNewBranch(g, newBranch, base) ==
    IF newBranch \in g.brs \/ base \notin g.brs \/ SwitchBlocked(g, base)
    THEN Fail(g)
    ELSE Ok([g EXCEPT !.brs = @ \cup {newBranch},
                      !.tips[newBranch] = g.tips[base],
                      !.head = newBranch])

\* git -C <repoPath> checkout <branch>
CheckoutBranch(g, branch) ==
    IF \/ branch \notin g.brs
       \/ (branch = WtBranch /\ g.wt)      \* checked out in the worktree
       \/ SwitchBlocked(g, branch)
    THEN Fail(g)
    ELSE Ok([g EXCEPT !.head = branch])

\* git -C <repoPath> merge <branch>
Merge(g, branch) ==
    LET theirs == g.tips[branch] \ g.tips[g.head]
        ours == g.tips[g.head] \ g.tips[branch]
    IN IF branch \notin g.brs \/ g.oUnm THEN Fail(g)
       ELSE IF theirs = {} THEN Ok(g)                       \* already up to date
       ELSE IF g.oChg \cap Tracked /= {} /\ Readme(theirs) /= {} THEN Fail(g)
       ELSE IF Readme(ours) /= {} /\ Readme(theirs) /= {}
       THEN Fail([g EXCEPT !.oUnm = TRUE, !.oChg = @ \cup Tracked])   \* conflict
       ELSE Ok([g EXCEPT !.tips[g.head] = @ \cup g.tips[branch]])

\* git -C <repoPath> branch -d|-D <branch>
OriginBranchDelete(g, branch, force) ==
    IF \/ branch \notin g.brs
       \/ branch = g.head
       \/ (branch = WtBranch /\ g.wt)
       \/ (~force /\ ~(g.tips[branch] \subseteq g.tips[g.head]))
    THEN Fail(g)
    ELSE Ok([g EXCEPT !.brs = @ \ {branch}, !.tips[branch] = {}])

\* git -C <repoPath> rev-list --count --left-right <base>...<branch>
AheadBehind(g, base, branch) ==
    IF base \notin g.brs \/ branch \notin g.brs
    THEN [ahead |-> 0, behind |-> 0, ok |-> FALSE]
    ELSE [ahead |-> Cardinality(g.tips[branch] \ g.tips[base]),
          behind |-> Cardinality(g.tips[base] \ g.tips[branch]),
          ok |-> TRUE]

\* StatusChangedCount(wtDir): the lines of git status --porcelain there,
\* untracked files included
WtStatusChangedCount(g) == Cardinality(g.wChg)

\* a status read taken from the worktree instead of the origin
StatusPorcelain_OfWorktree(g) == g.wChg

\* StatusPorcelain(repo.Path): the origin's changed paths ("" when clean)
StatusPorcelain(g) == g.oChg

\* ------------------------------------------- apply engine (command/apply.go)
ACall(op, arg, ok) == Call(op, 0, arg, ok)

\* a stash-transfer whose rollback of a failed pop deletes the new branch
\* before it leaves it
applyStash_DeleteFirst(g, newBranch, baseBranch) ==
    LET push == StashPush(g, "mgv-apply")
        c1 == <<ACall("StashPush", "worktree", push.ok)>>
        new == CheckoutNewBranch(push.g, newBranch, baseBranch)
        c2 == Append(c1, ACall("CheckoutNewBranch", newBranch, new.ok))
        back1 == StashPop(new.g, "worktree")
        pop == StashPop(new.g, "origin")
        c3 == Append(c2, ACall("StashPop", "origin", pop.ok))
        del == OriginBranchDelete(pop.g, newBranch, TRUE)
        co == CheckoutBranch(del.g, baseBranch)
        back2 == StashPop(co.g, "worktree")
    IN IF ~push.ok
       THEN [g |-> push.g, calls |-> c1, err |-> Err("stash push failed", 0)]
       ELSE IF ~new.ok
       THEN [g |-> back1.g,
             calls |-> Append(c2, Discarded(ACall("StashPop", "worktree", back1.ok))),
             err |-> Err("checkout -b failed", 0)]
       ELSE IF ~pop.ok
       THEN [g |-> back2.g,
             calls |-> c3 \o <<Discarded(ACall("BranchDelete", newBranch, del.ok)),
                              Discarded(ACall("CheckoutBranch", baseBranch, co.ok)),
                              Discarded(ACall("StashPop", "worktree", back2.ok))>>,
             err |-> Err("stash pop failed", 0)]
       ELSE [g |-> pop.g, calls |-> c3, err |-> NoErr]

\* applyStash(wtDir, repoPath, newBranch, baseBranch, repoName)
applyStash(g, newBranch, baseBranch) ==
    LET push == StashPush(g, "mgv-apply")
        c1 == <<ACall("StashPush", "worktree", push.ok)>>
        new == CheckoutNewBranch(push.g, newBranch, baseBranch)
        c2 == Append(c1, ACall("CheckoutNewBranch", newBranch, new.ok))
        \* rollback of a failed checkout -b
        back1 == StashPop(new.g, "worktree")
        pop == StashPop(new.g, "origin")
        c3 == Append(c2, ACall("StashPop", "origin", pop.ok))
        \* rollback of a failed stash pop
        co == CheckoutBranch(pop.g, baseBranch)
        del == OriginBranchDelete(co.g, newBranch, TRUE)
        back2 == StashPop(del.g, "worktree")
    IN IF ~push.ok
       THEN [g |-> push.g, calls |-> c1, err |-> Err("stash push failed", 0)]
       ELSE IF ~new.ok
       THEN [g |-> back1.g,
             calls |-> Append(c2, Discarded(ACall("StashPop", "worktree", back1.ok))),
             err |-> Err("checkout -b failed", 0)]
       ELSE IF ~pop.ok
       THEN [g |-> back2.g,
             calls |-> c3 \o <<Discarded(ACall("CheckoutBranch", baseBranch, co.ok)),
                              Discarded(ACall("BranchDelete", newBranch, del.ok)),
                              Discarded(ACall("StashPop", "worktree", back2.ok))>>,
             err |-> Err("stash pop failed", 0)]
       ELSE [g |-> pop.g, calls |-> c3, err |-> NoErr]

\* a merge-integrate whose last step checks out the base branch, as the
\* rollback of applyStash does, instead of the recorded original branch
applyMerge_ReturnsToBase(g, wtBranch, newBranch, baseBranch) ==
    LET new == CheckoutNewBranch(g, newBranch, baseBranch)
        mrg == Merge(new.g, wtBranch)
        co == CheckoutBranch(mrg.g, baseBranch)
        del == OriginBranchDelete(co.g, newBranch, TRUE)
        c1 == <<ACall("CurrentBranch", "origin", TRUE),
                ACall("CheckoutNewBranch", newBranch, new.ok)>>
        c2 == Append(c1, ACall("Merge", wtBranch, mrg.ok))
    IN IF ~new.ok
       THEN [g |-> new.g, calls |-> c1, err |-> Err("checkout -b failed", 0)]
       ELSE IF ~mrg.ok
       THEN [g |-> del.g,
             calls |-> c2 \o <<Discarded(ACall("CheckoutBranch", baseBranch, co.ok)),
                              Discarded(ACall("BranchDelete", newBranch, del.ok))>>,
             err |-> Err("merge failed", 0)]
       ELSE [g |-> co.g,
             calls |-> Append(c2, ACall("CheckoutBranch", baseBranch, co.ok)),
             err |-> NoErr]

\* a merge-integrate that first stashes the worktree's changes, as
\* stash-transfer does
applyMerge_StashFirst(g, wtBranch, newBranch, baseBranch) ==
    LET push == StashPush(g, "mgv-apply")
        origBranch == g.head
        c0 == <<ACall("StashPush", "worktree", push.ok),
                ACall("CurrentBranch", "origin", TRUE)>>
        new == CheckoutNewBranch(push.g, newBranch, baseBranch)
        c1 == Append(c0, ACall("CheckoutNewBranch", newBranch, new.ok))
        mrg == Merge(new.g, wtBranch)
        c2 == Append(c1, ACall("Merge", wtBranch, mrg.ok))
        co == CheckoutBranch(mrg.g, origBranch)
        del == OriginBranchDelete(co.g, newBranch, TRUE)
        ret == CheckoutBranch(mrg.g, origBranch)
    IN IF ~new.ok
       THEN [g |-> new.g, calls |-> c1, err |-> Err("checkout -b failed", 0)]
       ELSE IF ~mrg.ok
       THEN [g |-> del.g,
             calls |-> c2 \o <<Discarded(ACall("CheckoutBranch", origBranch, co.ok)),
                              Discarded(ACall("BranchDelete", newBranch, del.ok))>>,
             err |-> Err("merge failed", 0)]
       ELSE [g |-> ret.g,
             calls |-> Append(c2, ACall("CheckoutBranch", origBranch, ret.ok)),
             err |-> NoErr]

\* a merge-integrate for which a failed return to the original branch is an
\* error, rolled back like a failed merge
applyMergeUnder_ReturnFatal(g, wtBranch, newBranch, baseBranch, returnFails) ==
    LET origBranch == g.head
        c0 == <<ACall("CurrentBranch", "origin", TRUE)>>
        new == CheckoutNewBranch(g, newBranch, baseBranch)
        c1 == Append(c0, ACall("CheckoutNewBranch", newBranch, new.ok))
        mrg == Merge(new.g, wtBranch)
        c2 == Append(c1, ACall("Merge", wtBranch, mrg.ok))
        co == CheckoutBranch(mrg.g, origBranch)
        del == OriginBranchDelete(co.g, newBranch, TRUE)
        ret == IF returnFails THEN Fail(mrg.g) ELSE CheckoutBranch(mrg.g, origBranch)
        c3 == Append(c2, ACall("CheckoutBranch", origBranch, ret.ok))
        undo == OriginBranchDelete(ret.g, newBranch, TRUE)
    IN IF ~new.ok
       THEN [g |-> new.g, calls |-> c1, err |-> Err("checkout -b failed", 0)]
       ELSE IF ~mrg.ok
       THEN [g |-> del.g,
             calls |-> c2 \o <<Discarded(ACall("CheckoutBranch", origBranch, co.ok)),
                              Discarded(ACall("BranchDelete", newBranch, del.ok))>>,
             err |-> Err("merge failed", 0)]
       ELSE IF ~ret.ok
       THEN [g |-> undo.g,
             calls |-> Append(c3, Discarded(ACall("BranchDelete", newBranch, undo.ok))),
             err |-> Err("checkout failed", 0)]
       ELSE [g |-> ret.g, calls |-> c3, err |-> NoErr]

\* a merge-integrate that tries a failed merge a second time before it
\* rolls back
applyMergeUnder_RetriesMerge(g, wtBranch, newBranch, baseBranch, returnFails) ==
    LET origBranch == g.head
        c0 == <<ACall("CurrentBranch", "origin", TRUE)>>
        new == CheckoutNewBranch(g, newBranch, baseBranch)
        c1 == Append(c0, ACall("CheckoutNewBranch", newBranch, new.ok))
        first == Merge(new.g, wtBranch)
        mrg == IF first.ok THEN first ELSE Merge(first.g, wtBranch)
        c2 == IF first.ok THEN Append(c1, ACall("Merge", wtBranch, TRUE))
              ELSE c1 \o <<ACall("Merge", wtBranch, FALSE), ACall("Merge", wtBranch, mrg.ok)>>
        co == CheckoutBranch(mrg.g, origBranch)
        del == OriginBranchDelete(co.g, newBranch, TRUE)
        ret == IF returnFails THEN Fail(mrg.g) ELSE CheckoutBranch(mrg.g, origBranch)
    IN IF ~new.ok
       THEN [g |-> new.g, calls |-> c1, err |-> Err("checkout -b failed", 0)]
       ELSE IF ~mrg.ok
       THEN [g |-> del.g,
             calls |-> c2 \o <<Discarded(ACall("CheckoutBranch", origBranch, co.ok)),
                              Discarded(ACall("BranchDelete", newBranch, del.ok))>>,
             err |-> Err("merge failed", 0)]
       ELSE [g |-> ret.g,
             calls |-> Append(c2, ACall("CheckoutBranch", origBranch, ret.ok)),
             err |-> NoErr]

\* applyMerge(wtDir, repoPath, wtBranch, newBranch, baseBranch, repoName);
\* returnFails: the checkout of step 3 fails for a reason outside the
\* repository's state (index.lock held by another git process, a failing
\* post-checkout hook)
applyMergeUnder(g, wtBranch, newBranch, baseBranch, returnFails) ==
    LET origBranch == g.head                        \* CurrentBranch(repoPath)
        c0 == <<ACall("CurrentBranch", "origin", TRUE)>>
        new == CheckoutNewBranch(g, newBranch, baseBranch)
        c1 == Append(c0, ACall("CheckoutNewBranch", newBranch, new.ok))
        mrg == Merge(new.g, wtBranch)
        c2 == Append(c1, ACall("Merge", wtBranch, mrg.ok))
        \* rollback of a failed merge
        co == CheckoutBranch(mrg.g, origBranch)
        del == OriginBranchDelete(co.g, newBranch, TRUE)
        \* step 3: return to the original branch; a failure is only warned about
        ret == IF returnFails THEN Fail(mrg.g) ELSE CheckoutBranch(mrg.g, origBranch)
    IN IF ~new.ok
       THEN [g |-> new.g, calls |-> c1, err |-> Err("checkout -b failed", 0)]
       ELSE IF ~mrg.ok
       THEN [g |-> del.g,
             calls |-> c2 \o <<Discarded(ACall("CheckoutBranch", origBranch, co.ok)),
                              Discarded(ACall("BranchDelete", newBranch, del.ok))>>,
             err |-> Err("merge failed", 0)]
       ELSE [g |-> ret.g,
             calls |-> Append(c2, ACall("CheckoutBranch", origBranch, ret.ok)),
             err |-> NoErr]

\* applyMerge where git fails only for what the repository's state explains
applyMerge(g, wtBranch, newBranch, baseBranch) ==
    applyMergeUnder(g, wtBranch, newBranch, baseBranch, FALSE)

\* a loop body that does not look for the worktree directory first
applyRepo_AssumesWorktree(g, method, applyBase) ==
    LET branch == WtBranch                                  \* CurrentBranch(wtDir)
        changedCount == WtStatusChangedCount(g)
        ab == AheadBehind(g, GetDefaultBase(ApplyDefaultBase), branch)
        ahead == ab.ahead                                   \* the error is dropped
        reads == <<ACall("CurrentBranch", "worktree", TRUE),
                   ACall("StatusChangedCount", "worktree", TRUE),
                   Discarded(ACall("AheadBehind", GetDefaultBase(ApplyDefaultBase), ab.ok))>>
        reads2 == Append(reads, ACall("StatusPorcelain", "origin", TRUE))
        baseBranch == IF applyBase /= "" THEN applyBase
                      ELSE GetDefaultBase(ApplyDefaultBase)
        newBranch == DefaultNewBranch
        viaStash == applyStash(g, newBranch, baseBranch)
        viaMerge == applyMerge(g, branch, newBranch, baseBranch)
        none(outcome, cs) == [g |-> g, calls |-> cs, outcome |-> outcome, err |-> NoErr,
                              base |-> baseBranch, newBranch |-> newBranch]
        ran(out, failed) == [g |-> out.g, calls |-> reads2 \o out.calls,
                             outcome |-> IF out.err = NoErr THEN "applied" ELSE failed,
                             err |-> out.err, base |-> baseBranch, newBranch |-> newBranch]
    IN IF StatusPorcelain(g) /= {}
       THEN none("original repo has uncommitted changes", reads2)
       ELSE IF method = "" THEN none("--method is required", reads2)
       ELSE IF method = "skip" THEN none("skipped", reads2)
       ELSE IF method = "stash" /\ changedCount = 0 THEN none("no uncommitted changes", reads2)
       ELSE IF method = "merge" /\ ahead = 0 THEN none("no commits ahead", reads2)
       ELSE IF method = "stash" THEN ran(viaStash, "stash apply failed")
       ELSE IF method = "merge" THEN ran(viaMerge, "merge apply failed")
       ELSE none("unknown method", reads2)

\* the body of applyCmd.RunE's loop for the repository, with the flags
\* --method and --base (or what the pickers return for them)
applyRepo(g, method, applyBase) ==
    LET branch == WtBranch                                  \* CurrentBranch(wtDir)
        changedCount == WtStatusChangedCount(g)
        ab == AheadBehind(g, GetDefaultBase(ApplyDefaultBase), branch)
        ahead == ab.ahead                                   \* the error is dropped
        reads == <<ACall("CurrentBranch", "worktree", TRUE),
                   ACall("StatusChangedCount", "worktree", TRUE),
                   Discarded(ACall("AheadBehind", GetDefaultBase(ApplyDefaultBase), ab.ok))>>
        reads2 == Append(reads, ACall("StatusPorcelain", "origin", TRUE))
        baseBranch == IF applyBase /= "" THEN applyBase
                      ELSE GetDefaultBase(ApplyDefaultBase)
        newBranch == DefaultNewBranch
        viaStash == applyStash(g, newBranch, baseBranch)
        viaMerge == applyMerge(g, branch, newBranch, baseBranch)
        none(outcome, cs) == [g |-> g, calls |-> cs, outcome |-> outcome, err |-> NoErr,
                              base |-> baseBranch, newBranch |-> newBranch]
        ran(out, failed) == [g |-> out.g, calls |-> reads2 \o out.calls,
                             outcome |-> IF out.err = NoErr THEN "applied" ELSE failed,
                             err |-> out.err, base |-> baseBranch, newBranch |-> newBranch]
    IN IF ~g.wt THEN none("worktree not found", <<>>)
       ELSE IF StatusPorcelain(g) /= {}
       THEN none("original repo has uncommitted changes", reads2)
       ELSE IF method = "" THEN none("--method is required", reads2)
       ELSE IF method = "skip" THEN none("skipped", reads2)
       ELSE IF method = "stash" /\ changedCount = 0 THEN none("no uncommitted changes", reads2)
       ELSE IF method = "merge" /\ ahead = 0 THEN none("no commits ahead", reads2)
       ELSE IF method = "stash" THEN ran(viaStash, "stash apply failed")
       ELSE IF method = "merge" THEN ran(viaMerge, "merge apply failed")
       ELSE none("unknown method", reads2)

\* ---------------------------------------------------------- apply actions
Methods == {"stash", "merge", "skip", "", "rebase"}   \* --method
BaseFlags == {"", "main", "dev"}                       \* --base

SetGit(out) ==
    /\ oHead' = out.g.head
    /\ oBranches' = out.g.brs
    /\ tips' = out.g.tips
    /\ oChanges' = out.g.oChg
    /\ oUnmerged' = out.g.oUnm
    /\ wtExists' = out.g.wt
    /\ wtChanges' = out.g.wChg
    /\ wtUnmerged' = out.g.wUnm
    /\ stash' = out.g.stash
    /\ calls' = out.calls
    /\ UNCHANGED <<wsVars, batchVars, libVars>>

\* mgv apply <workspace> --method m --base b
DoApply ==
    \E method \in Methods, applyBase \in BaseFlags :
        LET out == applyRepo(GitState, method, applyBase)
        IN /\ SetGit(out)
           /\ last' = LastApply("apply", method, out.base, out.newBranch, out.outcome, out.err)

\* applyStash called directly, as the package's tests call it
DoApplyStash ==
    \E baseBranch \in {"main", "dev"} :
        LET out == applyStash(GitState, DefaultNewBranch, baseBranch)
        IN /\ wtExists
           /\ SetGit(out)
           /\ last' = LastApply("applyStash", "stash", baseBranch, DefaultNewBranch,
                                IF out.err = NoErr THEN "applied" ELSE "stash apply failed",
                                out.err)

\* applyMerge called directly
DoApplyMerge ==
    \E baseBranch \in {"main", "dev"} :
        LET out == applyMerge(GitState, WtBranch, DefaultNewBranch, baseBranch)
        IN /\ wtExists
           /\ SetGit(out)
           /\ last' = LastApply("applyMerge", "merge", baseBranch, DefaultNewBranch,
                                IF out.err = NoErr THEN "applied" ELSE "merge apply failed",
                                out.err)

\* applyMerge called directly while step 3's checkout cannot succeed
DoApplyMergeReturnFails ==
    \E baseBranch \in {"main", "dev"} :
        LET out == applyMergeUnder(GitState, WtBranch, DefaultNewBranch, baseBranch, TRUE)
        IN /\ wtExists
           /\ SetGit(out)
           /\ last' = LastApply("applyMerge (return fails)", "merge", baseBranch,
                                DefaultNewBranch,
                                IF out.err = NoErr THEN "applied" ELSE "merge apply failed",
                                out.err)

UserStep == calls' = <<>> /\ last' = Idle /\ UNCHANGED <<wsVars, batchVars, libVars>>

\* the workspace's worktree for the repository is created from a base branch
\* (git worktree add <wtDir> -b feat <base>, as CreateWorkspace does)
EnvWorktreeAdd ==
    \E base \in {"main", "dev"} :
        /\ ~wtExists /\ WtBranch \notin oBranches
        /\ wtExists' = TRUE
        /\ oBranches' = oBranches \cup {WtBranch}
        /\ tips' = [tips EXCEPT ![WtBranch] = tips[base]]
        /\ UserStep
        /\ UNCHANGED <<oHead, oChanges, oUnmerged, wtChanges, wtUnmerged, stash>>

\* the developer edits README.md or adds new.txt in the worktree
EnvEditWorktree ==
    \E f \in Files \ wtChanges :
        /\ wtExists /\ ~wtUnmerged
        /\ wtChanges' = wtChanges \cup {f}
        /\ UserStep
        /\ UNCHANGED <<oHead, oBranches, tips, oChanges, oUnmerged, wtExists, wtUnmerged, stash>>

\* the developer commits the worktree's README.md change (commit cw)
EnvCommitWorktree ==
    /\ wtExists /\ ~wtUnmerged
    /\ "README.md" \in wtChanges /\ "cw" \notin tips[WtBranch]
    /\ wtChanges' = wtChanges \ Tracked
    /\ tips' = [tips EXCEPT ![WtBranch] = @ \cup {"cw"}]
    /\ UserStep
    /\ UNCHANGED <<oHead, oBranches, oChanges, oUnmerged, wtExists, wtUnmerged, stash>>

\* the developer stashes the worktree's README.md change by hand
EnvStashWorktree ==
    /\ wtExists /\ ~wtUnmerged
    /\ "README.md" \in wtChanges /\ Len(stash) < MaxStash
    /\ wtChanges' = wtChanges \ Tracked
    /\ stash' = <<[files |-> Tracked, parent |-> tips[WtBranch], msg |-> "wip"]>> \o stash
    /\ UserStep
    /\ UNCHANGED <<oHead, oBranches, tips, oChanges, oUnmerged, wtExists, wtUnmerged>>

\* a commit lands on main in the origin: cm rewrites README.md, cn does not
EnvCommitOrigin ==
    \E c \in {"cm", "cn"} :
        /\ oHead = "main" /\ oChanges = {} /\ ~oUnmerged
        /\ tips["main"] = {}
        /\ tips' = [tips EXCEPT !["main"] = {c}]
        /\ UserStep
        /\ UNCHANGED <<oHead, oBranches, oChanges, oUnmerged, wtExists, wtChanges,
                       wtUnmerged, stash>>

\* the developer edits README.md in the origin
EnvEditOrigin ==
    /\ oChanges = {} /\ ~oUnmerged
    /\ oChanges' = Tracked
    /\ UserStep
    /\ UNCHANGED <<oHead, oBranches, tips, oUnmerged, wtExists, wtChanges, wtUnmerged, stash>>

\* the developer switches the origin to another branch
EnvCheckoutOrigin ==
    \E b \in oBranches \ {oHead} :
        /\ CheckoutBranch(GitState, b).ok
        /\ oHead' = b
        /\ UserStep
        /\ UNCHANGED <<oBranches, tips, oChanges, oUnmerged, wtExists, wtChanges,
                       wtUnmerged, stash>>

\* ========================================================================
\* Part III - one run of the apply command over all repositories of the
\* profile.  Every repository has its own .git, so each carries its own
\* state; the flags --method, --base and --repo are shared by the run.
\* ========================================================================
MaxBatch == 2      \* repositories in the applied profile
MaxRuns == 1       \* runs of apply over the profile

BatchRepos == 1..MaxBatch

\* a repository with no workspace worktree, and one whose worktree is new
FreshRepo ==
    [head |-> "main", brs |-> OriginBranches, tips |-> [b \in BranchNames |-> {}],
     oChg |-> {}, oUnm |-> FALSE, wt |-> FALSE, wChg |-> {}, wUnm |-> FALSE,
     stash |-> <<>>]
CleanWorktree == [FreshRepo EXCEPT !.wt = TRUE, !.brs = @ \cup {WtBranch}]

\* states a repository of the profile can be in when apply starts
SampleRepos ==
    { FreshRepo,
      CleanWorktree,
      [CleanWorktree EXCEPT !.wChg = Tracked],
      [CleanWorktree EXCEPT !.tips[WtBranch] = {"cw"}],
      [CleanWorktree EXCEPT !.oChg = Tracked, !.wChg = Tracked],
      [CleanWorktree EXCEPT !.tips["main"] = {"cm"}, !.tips[WtBranch] = {"cw"},
                            !.wChg = Tracked],
      [CleanWorktree EXCEPT !.brs = @ \cup {DefaultNewBranch},
                            !.tips[WtBranch] = {"cw"}, !.tips[DefaultNewBranch] = {"cw"},
                            !.wChg = Files],
      \* a repository that has no branch main (default_base is not set)
      [CleanWorktree EXCEPT !.head = "dev", !.brs = {"dev", WtBranch},
                            !.tips[WtBranch] = {"cw"}] }

\* a run that gives up as soon as one repository's transaction fails
RECURSIVE applyLoop_StopOnFailure(_, _, _, _, _)
applyLoop_StopOnFailure(acc, method, applyBase, repoFilter, i) ==
    IF i > MaxBatch THEN acc
    ELSE IF repoFilter /= {} /\ i \notin repoFilter
    THEN applyLoop_StopOnFailure([acc EXCEPT !.log = Append(@, [repo |-> i,
                                                                  outcome |-> "not selected"])],
                                 method, applyBase, repoFilter, i + 1)
    ELSE LET out == applyRepo(acc.gs[i], method, applyBase)
             next == [gs |-> [acc.gs EXCEPT ![i] = out.g],
                      log |-> Append(acc.log, [repo |-> i, outcome |-> out.outcome]),
                      err |-> IF out.outcome = "--method is required"
                              THEN Err("--method is required", i) ELSE out.err]
         IN IF next.err /= NoErr THEN next
            ELSE applyLoop_StopOnFailure(next, method, applyBase, repoFilter, i + 1)

applyBatch_StopOnFailure(gs, method, applyBase, repoFilter) ==
    applyLoop_StopOnFailure([gs |-> gs, log |-> <<>>, err |-> NoErr],
                            method, applyBase, repoFilter, 1)

\* the loop of applyCmd.RunE over profile.Repos, from repository i on: a
\* repository not named by --repo is passed over; RunE returns an error, and
\* the loop ends, only where no method was given; every other rejection or
\* failure is printed and the loop continues
RECURSIVE applyLoop(_, _, _, _, _)
applyLoop(acc, method, applyBase, repoFilter, i) ==
    IF i > MaxBatch THEN acc
    ELSE IF repoFilter /= {} /\ i \notin repoFilter
    THEN applyLoop([acc EXCEPT !.log = Append(@, [repo |-> i, outcome |-> "not selected"])],
                   method, applyBase, repoFilter, i + 1)
    ELSE LET out == applyRepo(acc.gs[i], method, applyBase)
             next == [gs |-> [acc.gs EXCEPT ![i] = out.g],
                      log |-> Append(acc.log, [repo |-> i, outcome |-> out.outcome]),
                      err |-> NoErr]
         IN IF out.outcome = "--method is required"
            THEN [next EXCEPT !.err = Err("--method is required", i)]
            ELSE applyLoop(next, method, applyBase, repoFilter, i + 1)

applyBatch(gs, method, applyBase, repoFilter) ==
    applyLoop([gs |-> gs, log |-> <<>>, err |-> NoErr], method, applyBase, repoFilter, 1)

\* the --repo sets tried: none, the first repository only, the last only
RepoFilters == {{}, {1}, {MaxBatch}}

\* mgv apply <workspace> -y --method m --base b [--repo r ...]
DoApplyBatch ==
    \E method \in Methods, applyBase \in {"", "dev"}, repoFilter \in RepoFilters :
        LET out == applyBatch(batch, method, applyBase, repoFilter)
        IN /\ batchRuns < MaxRuns
           /\ batchRuns' = batchRuns + 1
           /\ batch' = out.gs
           /\ batchSel' = repoFilter
           /\ batchLog' = out.log
           /\ batchErr' = out.err
           /\ report' = <<>>
           /\ calls' = <<>>
           /\ last' = LastApply("applyBatch", method, applyBase, DefaultNewBranch, "", out.err)
           /\ UNCHANGED <<libVars, wsVars, applyVars>>

\* one row of a status report: the worktree's branch and changed count, and
\* the branch's distance from the repository's default base
StatusRow(i, exists, branch, changedCount, ahead, behind, shown) ==
    [repo |-> i, exists |-> exists, branch |-> branch, changedCount |-> changedCount,
     ahead |-> ahead, behind |-> behind, shown |-> shown]

\* a report that treats a failed ahead/behind count like a failed branch
\* read: the error is printed and the repository gets no status line
RECURSIVE statusLoop_CountFatal(_, _, _)
statusLoop_CountFatal(gs, acc, i) ==
    IF i > MaxBatch THEN acc
    ELSE IF ~gs[i].wt
    THEN statusLoop_CountFatal(gs,
            [acc EXCEPT !.rows = Append(@, StatusRow(i, FALSE, "", 0, 0, 0, FALSE))], i + 1)
    ELSE LET branch == WtBranch
             changedCount == WtStatusChangedCount(gs[i])
             ab == AheadBehind(gs[i], GetDefaultBase(ApplyDefaultBase), branch)
         IN statusLoop_CountFatal(gs,
                [rows |-> Append(acc.rows,
                                 StatusRow(i, TRUE, branch, changedCount,
                                           ab.ahead, ab.behind, ab.ok)),
                 cs |-> Append(acc.cs, Call("AheadBehind", i, "repo.Path", ab.ok))],
                i + 1)

\* the loop of statusCmd.RunE over profile.Repos, from repository i on: a
\* missing worktree gets a warning and no status line; a failed count is
\* replaced by 0, 0 and the line is printed all the same.  The count is
\* taken in repo.Path, the origin.
RECURSIVE statusLoop(_, _, _)
statusLoop(gs, acc, i) ==
    IF i > MaxBatch THEN acc
    ELSE IF ~gs[i].wt
    THEN statusLoop(gs,
            [acc EXCEPT !.rows = Append(@, StatusRow(i, FALSE, "", 0, 0, 0, FALSE))], i + 1)
    ELSE LET branch == WtBranch                             \* CurrentBranch(repoDir)
             changedCount == WtStatusChangedCount(gs[i])
             ab == AheadBehind(gs[i], GetDefaultBase(ApplyDefaultBase), branch)
             ahead == IF ab.ok THEN ab.ahead ELSE 0
             behind == IF ab.ok THEN ab.behind ELSE 0
         IN statusLoop(gs,
                [rows |-> Append(acc.rows,
                                 StatusRow(i, TRUE, branch, changedCount,
                                           ahead, behind, TRUE)),
                 cs |-> Append(acc.cs, Call("AheadBehind", i, "repo.Path", ab.ok))],
                i + 1)

\* the loop of ListWorkspaces over profile.Repos for the workspace: every
\* repository gets a RepoStatus; Ahead and Behind keep their zero value
\* unless the count, taken in repo.Path, succeeded
RECURSIVE listLoop(_, _, _)
listLoop(gs, acc, i) ==
    IF i > MaxBatch THEN acc
    ELSE IF ~gs[i].wt
    THEN listLoop(gs,
            [acc EXCEPT !.rows = Append(@, StatusRow(i, FALSE, "", 0, 0, 0, TRUE))], i + 1)
    ELSE LET branch == WtBranch                             \* CurrentBranch(repoDir)
             count == WtStatusChangedCount(gs[i])
             ab == AheadBehind(gs[i], GetDefaultBase(ApplyDefaultBase), branch)
         IN listLoop(gs,
                [rows |-> Append(acc.rows,
                                 StatusRow(i, TRUE, branch, count,
                                           IF ab.ok THEN ab.ahead ELSE 0,
                                           IF ab.ok THEN ab.behind ELSE 0, TRUE)),
                 cs |-> Append(acc.cs, Call("AheadBehind", i, "repo.Path", ab.ok))],
                i + 1)

\* mgv status <workspace>: reads only; RunE returns nil
DoStatus ==
    LET out == statusLoop(batch, [rows |-> <<>>, cs |-> <<>>], 1)
    IN /\ report' = out.rows
       /\ calls' = out.cs
       /\ last' = LastApply("status", "", "", "", "", NoErr)
       /\ UNCHANGED <<libVars, wsVars, applyVars, batch, batchSel, batchLog, batchErr, batchRuns>>

\* ListWorkspaces(cfg, profile), as mgv list and the pickers call it
DoListWorkspaces ==
    LET out == listLoop(batch, [rows |-> <<>>, cs |-> <<>>], 1)
    IN /\ report' = out.rows
       /\ calls' = out.cs
       /\ last' = LastApply("ListWorkspaces", "", "", "", "", NoErr)
       /\ UNCHANGED <<libVars, wsVars, applyVars, batch, batchSel, batchLog, batchErr, batchRuns>>

\* ------------------------------------------------------- the configuration
MaxProfileRepos == 2
ProfileNamePool == {"dev", "ops"}

\* the repositories a profile can be given: two directories with the same
\* base name (the name is filepath.Base of the selected path) and a third
RepoPool ==
    {[Name |-> "api", Path |-> "/a/api"],
     [Name |-> "api", Path |-> "/b/api"],
     [Name |-> "web", Path |-> "/a/web"]}

RepoLists == UNION {[1..n -> RepoPool] : n \in 0..MaxProfileRepos}

\* repository names are unique within each profile
NamesUnique(ps) ==
    \A p \in DOMAIN ps : \A i, j \in DOMAIN ps[p] :
        ps[p][i].Name = ps[p][j].Name => i = j

\* the configurations over the pool whose repository names are unique
UniqueConfigs ==
    {ps \in UNION {[D -> RepoLists] : D \in SUBSET ProfileNamePool} : NamesUnique(ps)}

CfgIdle == [op |-> "none", profile |-> "", repo |-> "", err |-> "nil"]

\* c.Profiles[name] = profile
SetProfile(ps, name, profile) ==
    [p \in DOMAIN ps \cup {name} |-> IF p = name THEN profile ELSE ps[p]]

\* the index of the first repository of the list named repoName, 0 if none
\* (the code's idx, counted from 1)
RepoIndex(repos, repoName) ==
    IF \E i \in DOMAIN repos : repos[i].Name = repoName
    THEN CHOOSE i \in DOMAIN repos :
             /\ repos[i].Name = repoName
             /\ \A j \in 1..(i - 1) : repos[j].Name /= repoName
    ELSE 0

AddProfile(ps, name, profile) ==
    IF name \in DOMAIN ps
    THEN [profiles |-> ps, err |-> "profile already exists"]
    ELSE [profiles |-> SetProfile(ps, name, profile), err |-> "nil"]

AddRepoToProfile(ps, profileName, repo) ==
    IF profileName \notin DOMAIN ps
    THEN [profiles |-> ps, err |-> "profile not found"]
    ELSE IF RepoIndex(ps[profileName], repo.Name) /= 0
    THEN [profiles |-> ps, err |-> "repository already exists"]
    ELSE [profiles |-> SetProfile(ps, profileName, Append(ps[profileName], repo)),
          err |-> "nil"]

RemoveRepoFromProfile(ps, profileName, repoName) ==
    IF profileName \notin DOMAIN ps
    THEN [profiles |-> ps, err |-> "profile not found"]
    ELSE LET repos == ps[profileName]
             idx == RepoIndex(repos, repoName)
         IN IF idx = 0
            THEN [profiles |-> ps, err |-> "repository not found"]
            ELSE [profiles |-> SetProfile(ps, profileName,
                                  SubSeq(repos, 1, idx - 1) \o
                                  SubSeq(repos, idx + 1, Len(repos))),
                  err |-> "nil"]

DoAddProfile ==
    \E name \in ProfileNamePool, profile \in RepoLists :
        LET out == AddProfile(profiles, name, profile)
        IN /\ profiles' = out.profiles
           /\ cfgLast' = [op |-> "AddProfile", profile |-> name, repo |-> "",
                          err |-> out.err]
           /\ UNCHANGED <<wsVars, applyVars, batchVars, reorderVars, labelVars, calls, last>>

DoAddRepoToProfile ==
    \E profileName \in ProfileNamePool, repo \in RepoPool :
        LET out == AddRepoToProfile(profiles, profileName, repo)
        IN /\ \A p \in DOMAIN out.profiles : Len(out.profiles[p]) <= MaxProfileRepos
           /\ profiles' = out.profiles
           /\ cfgLast' = [op |-> "AddRepoToProfile", profile |-> profileName,
                          repo |-> repo.Name, err |-> out.err]
           /\ UNCHANGED <<wsVars, applyVars, batchVars, reorderVars, labelVars, calls, last>>

DoRemoveRepoFromProfile ==
    \E profileName \in ProfileNamePool, repoName \in {r.Name : r \in RepoPool} \cup {"cli"} :
        LET out == RemoveRepoFromProfile(profiles, profileName, repoName)
        IN /\ profiles' = out.profiles
           /\ cfgLast' = [op |-> "RemoveRepoFromProfile", profile |-> profileName,
                          repo |-> repoName, err |-> out.err]
           /\ UNCHANGED <<wsVars, applyVars, batchVars, reorderVars, labelVars, calls, last>>

IdleConfig == profiles = <<>> /\ cfgLast = CfgIdle

\* ---------------------------------------------------- reorderWithDefault
IdleReorder == items = <<>> /\ defaultItem = "" /\ ordered = [done |-> FALSE, list |-> <<>>]

MaxItems == 3

\* branch names, as in the tests of reorderWithDefault
ItemPool == {"main", "develop", "feature"}

\* what BranchList returns: the local branch names, each once
ItemLists ==
    {l \in UNION {[1..n -> ItemPool] : n \in 0..MaxItems} :
        \A i, j \in DOMAIN l : l[i] = l[j] => i = j}

\* the default branch handed to SelectBranch
DefaultItems == ItemPool \cup {""}

\* a reordering that filters in the caller's slice (ordered := items[:0])
reorderWithDefault_InPlace(its, dflt) ==
    IF dflt = "" THEN [ret |-> its, items |-> its]
    ELSE LET kept == SelectSeq(its, LAMBDA item : item /= dflt)
             found == \E i \in DOMAIN its : its[i] = dflt
             after == [i \in DOMAIN its |-> IF i <= Len(kept) THEN kept[i] ELSE its[i]]
         IN [ret |-> IF found THEN <<dflt>> \o kept ELSE kept, items |-> after]

\* reorderWithDefault: what it returns and what the caller's list holds
\* afterwards
reorderWithDefault(its, dflt) ==
    IF dflt = "" THEN [ret |-> its, items |-> its]
    ELSE LET kept == SelectSeq(its, LAMBDA item : item /= dflt)
             found == \E i \in DOMAIN its : its[i] = dflt
         IN [ret |-> IF found THEN <<dflt>> \o kept ELSE kept, items |-> its]

DoReorderWithDefault ==
    LET out == reorderWithDefault(items, defaultItem)
    IN /\ ordered' = [done |-> TRUE, list |-> out.ret]
       /\ items' = out.items
       /\ UNCHANGED <<wsVars, applyVars, batchVars, configVars, labelVars, defaultItem,
                      calls, last>>

\* ------------------------------------------------------- workspace labels
\* A string is the sequence of its characters; "/" and " " are the characters
\* the parsing looks at, any other element stands for characters that are
\* neither.
MaxName == 3

NameChars == {"a", "/", " "}

Strings(chars, n) == UNION {[1..k -> chars] : k \in 0..n}

\* profile names: what promptInput returns (strings.TrimSpace, not empty),
\* here the names that begin and end with a letter, such as "team/api" and
\* "my team"
ProfileNamesIn ==
    {s \in Strings(NameChars, MaxName) :
        /\ s /= <<>>
        /\ s[1] = "a"
        /\ s[Len(s)] = "a"}

\* workspace names: the name of a directory entry (no "/")
WorkspaceNamesIn == Strings({"a"}, MaxName) \ {<<>>}

\* the repository statuses of a workspace
RepoStatusLists ==
    {<<>>,
     <<[RepoName |-> <<"r">>, Exists |-> FALSE, ChangedCount |-> 0]>>,
     <<[RepoName |-> <<"r">>, Exists |-> TRUE, ChangedCount |-> 0]>>,
     <<[RepoName |-> <<"r">>, Exists |-> TRUE, ChangedCount |-> 2],
       [RepoName |-> <<"s">>, Exists |-> FALSE, ChangedCount |-> 0]>>}

WorkspacesIn ==
    [ProfileName : ProfileNamesIn, WorkspaceName : WorkspaceNamesIn,
     RepoStatuses : RepoStatusLists]

\* the labels ParseWorkspaceLabel can be handed
LabelsIn == Strings(NameChars, MaxName)

\* strings.Join(parts, sep)
RECURSIVE Join(_, _)
Join(parts, sep) ==
    IF parts = <<>> THEN <<>>
    ELSE IF Len(parts) = 1 THEN parts[1]
    ELSE parts[1] \o sep \o Join(Tail(parts), sep)

\* strings.Fields(s), from character i on: cur is the field being read
RECURSIVE FieldsFrom(_, _, _, _)
FieldsFrom(s, i, cur, out) ==
    LET closed == IF cur = <<>> THEN out ELSE Append(out, cur)
    IN IF i > Len(s) THEN closed
       ELSE IF s[i] = " " THEN FieldsFrom(s, i + 1, <<>>, closed)
       ELSE FieldsFrom(s, i + 1, Append(cur, s[i]), out)

Fields(s) == FieldsFrom(s, 1, <<>>, <<>>)

\* strings.SplitN(s, "/", 2)
SplitN2(s) ==
    IF \E i \in DOMAIN s : s[i] = "/"
    THEN LET k == CHOOSE i \in DOMAIN s :
                      s[i] = "/" /\ \A j \in 1..(i - 1) : s[j] /= "/"
         IN <<SubSeq(s, 1, k - 1), SubSeq(s, k + 1, Len(s))>>
    ELSE <<s>>

\* the decimal digits of a count from 1 to 9 (%d)
Itoa(n) == <<<<"1", "2", "3", "4", "5", "6", "7", "8", "9">>[n]>>

\* FormatRepoStatusCompact: "[name: badge]", the badge being the clean badge
\* or "<mark> <count> changed"
FormatRepoStatusCompact(repoName, changedCount) ==
    IF changedCount = 0
    THEN <<"[">> \o repoName \o <<":", " ", "ok", " ", "clean", "]">>
    ELSE <<"[">> \o repoName \o <<":", " ", "dot", " ">> \o Itoa(changedCount)
         \o <<" ", "changed", "]">>

\* the parts of one workspace's label after the first, from status i on
RECURSIVE StatusParts(_, _)
StatusParts(rss, i) ==
    IF i > Len(rss) THEN <<>>
    ELSE <<IF ~rss[i].Exists
           THEN <<"[">> \o rss[i].RepoName \o <<":", " ", "missing", "]">>
           ELSE FormatRepoStatusCompact(rss[i].RepoName, rss[i].ChangedCount)>>
         \o StatusParts(rss, i + 1)

WorkspaceLabels(workspaces) ==
    [i \in DOMAIN workspaces |->
        Join(<<workspaces[i].ProfileName \o <<"/">> \o workspaces[i].WorkspaceName>>
             \o StatusParts(workspaces[i].RepoStatuses, 1),
             <<" ", " ", " ", " ", " ">>)]

ParseWorkspaceLabel(lbl) ==
    LET parts == Fields(lbl)
    IN IF Len(parts) = 0
       THEN [profileName |-> <<>>, workspaceName |-> <<>>, err |-> "empty label"]
       ELSE LET slashParts == SplitN2(parts[1])
            IN IF Len(slashParts) /= 2
               THEN [profileName |-> <<>>, workspaceName |-> <<>>,
                     err |-> "invalid label format"]
               ELSE [profileName |-> slashParts[1], workspaceName |-> slashParts[2],
                     err |-> "nil"]

NotParsed == [done |-> FALSE, profileName |-> <<>>, workspaceName |-> <<>>, err |-> "nil"]

\* the label of the workspace is produced (and selected)
DoWorkspaceLabels ==
    /\ label' = WorkspaceLabels(<<wsInfo>>)[1]
    /\ parsed' = NotParsed
    /\ UNCHANGED <<wsVars, applyVars, batchVars, configVars, reorderVars, wsInfo, calls, last>>

DoParseWorkspaceLabel ==
    LET out == ParseWorkspaceLabel(label)
    IN /\ parsed' = [done |-> TRUE, profileName |-> out.profileName,
                     workspaceName |-> out.workspaceName, err |-> out.err]
       /\ UNCHANGED <<wsVars, applyVars, batchVars, configVars, reorderVars, wsInfo, label,
                      calls, last>>

NoWorkspace == [ProfileName |-> <<>>, WorkspaceName |-> <<>>, RepoStatuses |-> <<>>]

IdleLabels == wsInfo = NoWorkspace /\ label = <<>> /\ parsed = NotParsed

InitBatchIdle ==
    /\ batchRuns = 0
    /\ batchSel = {}
    /\ batchLog = <<>>
    /\ batchErr = NoErr
    /\ report = <<>>

InitWs ==
    /\ wsDirs = {}
    /\ wtDirs = {}
    /\ worktrees = [r \in Repos |-> {}]
    /\ locked = [r \in Repos |-> {}]
    /\ branches = [r \in Repos |-> OriginBranches]
    /\ wtHeads = {}
    /\ changed = {}
    /\ aheadBrs = {}
    /\ hooksRun = <<>>

\* a fresh origin on main with branches main and dev, no worktree yet
InitApply ==
    /\ oHead = "main"
    /\ oBranches = OriginBranches
    /\ tips = [b \in BranchNames |-> {}]
    /\ oChanges = {}
    /\ oUnmerged = FALSE
    /\ wtExists = FALSE
    /\ wtChanges = {}
    /\ wtUnmerged = FALSE
    /\ stash = <<>>

vars == <<wsDirs, wtDirs, worktrees, locked, branches, wtHeads, changed, aheadBrs, hooksRun,
          oHead, oBranches, tips, oChanges, oUnmerged, wtExists, wtChanges,
          wtUnmerged, stash, batch, batchSel, batchLog, batchErr, batchRuns, report, calls, last,
          profiles, cfgLast, items, defaultItem, ordered, wsInfo, label, parsed>>

Init ==
    /\ InitWs
    /\ InitApply
    /\ batch = [r \in BatchRepos |-> FreshRepo]
    /\ InitBatchIdle
    /\ calls = <<>>
    /\ last = Idle
    /\ IdleConfig
    /\ IdleReorder
    /\ IdleLabels

\* apply is run on a profile whose repositories are in any of the sampled states
InitBatch ==
    /\ InitWs
    /\ InitApply
    /\ batch \in [BatchRepos -> SampleRepos]
    /\ InitBatchIdle
    /\ calls = <<>>
    /\ last = Idle
    /\ IdleConfig
    /\ IdleReorder
    /\ IdleLabels

NextWs ==
    \/ DoCreateWorkspace
    \/ DoRemoveWorkspace
    \/ UserEdit
    \/ UserCommit
    \/ UserLock

NextApply ==
    \/ DoApply
    \/ DoApplyStash
    \/ DoApplyMerge
    \/ DoApplyMergeReturnFails
    \/ EnvWorktreeAdd
    \/ EnvEditWorktree
    \/ EnvCommitWorktree
    \/ EnvStashWorktree
    \/ EnvCommitOrigin
    \/ EnvEditOrigin
    \/ EnvCheckoutOrigin

SpecWs == Init /\ [][NextWs]_vars
SpecApply == Init /\ [][NextApply]_vars

\* the lifecycle operations and the apply engine in one specification: each
\* part takes its steps while the other part is in its initial state
NextOps ==
    \/ InitApply /\ NextWs
    \/ InitWs /\ NextApply

SpecOps == Init /\ [][NextOps]_vars

NextBatch ==
    \/ DoApplyBatch
    \/ DoStatus
    \/ DoListWorkspaces

SpecBatch == InitBatch /\ [][NextBatch]_vars

\* the state of everything but the configuration and the selection helpers
InitRest ==
    /\ InitWs
    /\ InitApply
    /\ batch = [r \in BatchRepos |-> FreshRepo]
    /\ InitBatchIdle
    /\ calls = <<>>
    /\ last = Idle

\* reorderWithDefault on any branch listing and any default
InitReorder ==
    /\ InitRest
    /\ IdleConfig
    /\ items \in ItemLists
    /\ defaultItem \in DefaultItems
    /\ ordered = [done |-> FALSE, list |-> <<>>]
    /\ IdleLabels

NextReorder == DoReorderWithDefault

SpecReorder == InitReorder /\ [][NextReorder]_vars

\* a workspace whose label is to be produced, or any label to be parsed
InitLabels ==
    /\ InitRest
    /\ IdleConfig
    /\ IdleReorder
    /\ \/ wsInfo \in WorkspacesIn /\ label = <<>>
       \/ wsInfo = NoWorkspace /\ label \in LabelsIn
    /\ parsed = NotParsed

NextLabels ==
    \/ DoWorkspaceLabels
    \/ DoParseWorkspaceLabel

SpecLabels == InitLabels /\ [][NextLabels]_vars

\* the configuration calls, from any configuration with unique names
InitConfig ==
    /\ InitRest
    /\ profiles \in UniqueConfigs
    /\ cfgLast = CfgIdle
    /\ IdleReorder
    /\ IdleLabels

NextConfig ==
    \/ DoAddProfile
    \/ DoAddRepoToProfile
    \/ DoRemoveRepoFromProfile

SpecConfig == InitConfig /\ [][NextConfig]_vars

\* ========================================================================
\* Claims
\* ========================================================================
CreateFailed(l) == l.op = "create" /\ l.err.kind = "worktree"

C2_CreateFailureLeavesNoBranch ==
    [][CreateFailed(last') =>
        \A r \in Repos : last'.ws \in branches'[r] => last'.ws \in branches[r]]_vars

\* an Apply transaction: the command's per-repository body, or the engine
\* entry points called directly
ApplyOps == {"apply", "applyStash", "applyMerge"}

\* C3: an Apply transaction that returns an error leaves the origin on the
\* branch it was on before the call.
C3_FailedApplyKeepsOriginBranch ==
    [][(last'.op \in ApplyOps /\ last'.err /= NoErr) => oHead' = oHead]_vars

\* C4: after a failed Apply transaction no branch named newBranch exists in
\* the origin (read in the code's favour: none that the call created).
C4_FailedApplyLeavesNoNewBranch ==
    [][(last'.op \in ApplyOps /\ last'.err /= NoErr) =>
        (last'.newBranch \in oBranches' => last'.newBranch \in oBranches)]_vars

\* C5: a stash-transfer that fails after its stash push succeeded leaves the
\* worktree's change set as it was before the call.
C5_FailedStashRestoresWorktree ==
    [][(last'.op \in ApplyOps /\ last'.method = "stash" /\ last'.err /= NoErr
        /\ last'.err.kind /= "stash push failed") => wtChanges' = wtChanges]_vars

Mutating == {"StashPush", "CheckoutNewBranch", "CheckoutBranch", "Merge", "StashPop",
             "BranchDelete"}

\* C6: an apply requested while the origin has a non-empty change set is
\* rejected, and no mutating backend call is made: the repository and the
\* worktree are left as they were.
C6_DirtyOriginRejected ==
    [][(last'.op = "apply" /\ oChanges /= {}) =>
        /\ last'.outcome /= "applied"
        /\ \A j \in DOMAIN calls' : calls'[j].op \notin Mutating
        /\ UNCHANGED applyVars]_vars

\* C6 witness: a stash apply was asked for a changed worktree and turned down
\* because the origin was dirty
C6_Witness ==
    /\ last.op = "apply" /\ last.method = "stash"
    /\ last.outcome = "original repo has uncommitted changes"
    /\ wtExists /\ wtChanges /= {} /\ oChanges /= {}

\* C7: a stash-transfer on a worktree with no changed file is rejected, through
\* the command and through applyStash itself: no stash is popped and no
\* branch is created.
C7_CleanWorktreeStashRejected ==
    [][(last'.op \in ApplyOps /\ last'.method = "stash"
        /\ wtExists /\ wtChanges = {}) =>
        /\ last'.outcome /= "applied"
        /\ \A j \in DOMAIN calls' :
              ~(calls'[j].op \in {"StashPop", "CheckoutNewBranch"} /\ calls'[j].ok)]_vars

\* C8: through the command, merge-integrate is turned down by the guard (no
\* branch created, no merge attempted) exactly when the worktree branch is 0
\* commits ahead of the base branch chosen for the transaction.
C8_MergeGuardUsesChosenBase ==
    [][(last'.op = "apply" /\ last'.method = "merge" /\ wtExists /\ oChanges = {}
        /\ last'.base \in oBranches) =>
        ((\A j \in DOMAIN calls' : calls'[j].op \notin {"CheckoutNewBranch", "Merge"})
            <=> AheadBehind(GitState, last'.base, WtBranch).ahead = 0)]_vars

\* C9: a stash-transfer that succeeds on a worktree with a non-empty change set
\* leaves the origin on newBranch with exactly the worktree's former change
\* set as its uncommitted changes, and the worktree's change set empty.
C9_StashTransfersChangeSet ==
    [][(last'.op \in ApplyOps /\ last'.method = "stash" /\ last'.outcome = "applied"
        /\ wtChanges /= {}) =>
        /\ oHead' = last'.newBranch
        /\ oChanges' = wtChanges
        /\ wtChanges' = {}]_vars

\* C10: a merge-integrate that succeeds leaves the origin on the branch it was
\* on before the call, whatever that was, and newBranch exists, holding the
\* base branch's history and the worktree branch's commits.
C10_MergeReturnsToOriginalBranch ==
    [][(last'.op \in ApplyOps /\ last'.method = "merge"
        /\ last'.outcome = "applied") =>
        /\ oHead' = oHead
        /\ last'.newBranch \in oBranches'
        /\ tips'[last'.newBranch] = tips[last'.base] \cup tips[WtBranch]]_vars

\* C10 witness: the origin was on dev, the base was main, and the new branch
\* holds a commit of main and the worktree's commit
C10_Witness ==
    /\ last.op = "apply" /\ last.method = "merge" /\ last.outcome = "applied"
    /\ oHead = "dev" /\ last.base = "main"
    /\ {"cn", "cw"} \subseteq tips[last.newBranch]

\* C11: when the merge step of merge-integrate fails, the rollback aborts
\* the merge: after the failed call the origin, clean before it, has no merge
\* in progress (no unmerged index) and an empty change set.
C11_MergeRollbackAbortsMerge ==
    [][(last'.op \in ApplyOps /\ last'.method = "merge"
        /\ last'.err.kind = "merge failed" /\ oChanges = {} /\ ~oUnmerged) =>
        (~oUnmerged' /\ oChanges' = {})]_vars

\* RemoveWorkspace was called for ws without force while the workspace
\* directory existed and some existing worktree of it had changes
DirtyRemove(l, dirs, wts, chg) ==
    /\ l.op = "remove" /\ ~l.force /\ l.ws \in dirs
    /\ \E r \in Repos : <<l.ws, r>> \in wts /\ <<l.ws, r>> \in chg

\* C12: RemoveWorkspace without force on a workspace in which an existing
\* worktree has a non-empty change set returns an error and removes nothing:
\* no backend call is made, every worktree stays registered with its
\* directory, no branch is deleted and the workspace directory still exists.
C12_DirtyRemoveRemovesNothing ==
    [][DirtyRemove(last', wsDirs, wtDirs, changed) =>
        /\ last'.err.kind = "uncommitted"
        /\ calls' = <<>>
        /\ UNCHANGED <<wsDirs, wtDirs, worktrees, locked, branches, wtHeads, changed,
                       aheadBrs>>]_vars

\* C12 witness: the changed worktree is the last repository's; the first
\* repository's is clean, and the call asked for the branches to be deleted
C12_Witness ==
    /\ last.op = "remove" /\ ~last.force /\ last.deleteBranch
    /\ last.err = Err("uncommitted", MaxRepos)
    /\ <<last.ws, 1>> \in wtDirs \ changed
    /\ last.ws \in worktrees[1] /\ last.ws \in branches[1]

\* C13: once a CreateWorkspace or RemoveWorkspace call has returned, whatever
\* failed inside it, every workspace directory that exists holds a registered
\* worktree for every repository of the profile; a directory with only some
\* of the worktrees is never left behind.
C13_WorkspaceNeverPartial ==
    \A ws \in wsDirs : \A r \in Repos : <<ws, r>> \in wtDirs /\ ws \in worktrees[r]

\* C13 witness: a RemoveWorkspace in which the removal of one worktree was
\* refused and that of another succeeded has returned
C13_Witness ==
    /\ last.op = "remove" /\ last.err = NoErr
    /\ \E j \in DOMAIN calls : calls[j].op = "WorktreeRemove" /\ ~calls[j].ok
    /\ \E j \in DOMAIN calls : calls[j].op = "WorktreeRemove" /\ calls[j].ok
    /\ last.ws \notin wsDirs

\* RemoveWorkspace got past its guards and ran its per-repository loop
RemoveRan(l) == l.op = "remove" /\ l.err.kind \notin {"notfound", "uncommitted"}

\* C14: in RemoveWorkspace a worktree-removal failure for one repository does
\* not stop processing: one removal is attempted, in profile order, for every
\* repository whose worktree directory exists, and nothing is re-created (no
\* worktree registration, directory or branch appears).
C14_RemoveContinuesAfterFailure ==
    [][RemoveRan(last') =>
        /\ \A r \in Repos : <<last'.ws, r>> \in wtDirs =>
              \E j \in DOMAIN calls' : calls'[j].op = "WorktreeRemove" /\ calls'[j].repo = r
        /\ \A j, k \in DOMAIN calls' :
              (j < k /\ calls'[j].op = "WorktreeRemove" /\ calls'[k].op = "WorktreeRemove")
                  => calls'[j].repo < calls'[k].repo
        /\ \A r \in Repos : worktrees'[r] \subseteq worktrees[r]
                            /\ branches'[r] \subseteq branches[r]
        /\ wtDirs' \subseteq wtDirs /\ wsDirs' \subseteq wsDirs]_vars

\* C14 witness: the first repository's worktree removal failed and the last
\* repository's worktree was removed after it
C14_Witness ==
    /\ RemoveRan(last)
    /\ \E j, k \in DOMAIN calls :
          /\ j < k
          /\ calls[j] = Call("WorktreeRemove", 1, IF last.force THEN "force" ELSE "", FALSE)
          /\ calls[k] = Call("WorktreeRemove", MaxRepos, IF last.force THEN "force" ELSE "", TRUE)
    /\ last.ws \notin worktrees[MaxRepos]

\* C15: in every reachable state every worktree of a workspace is on a
\* branch named like the workspace, and that branch exists in the origin;
\* CreateWorkspace puts each repository's worktree on a new branch of exactly
\* that name.
C15_WorktreeBranchIsWorkspaceName ==
    /\ \A h \in wtHeads : h[3] = h[1] /\ h[3] \in branches[h[2]]
    /\ \A r \in Repos : \A ws \in worktrees[r] : <<ws, r, ws>> \in wtHeads

\* C15 witness: CreateWorkspace has just made the worktrees of all
\* repositories, from base branches of several names
C15_Witness ==
    /\ last.op = "create" /\ last.err = NoErr
    /\ \A r \in Repos : <<last.ws, r, last.ws>> \in wtHeads
    /\ \E j, k \in DOMAIN calls : calls[j].op = "WorktreeAdd" /\ calls[k].op = "WorktreeAdd"
                                   /\ calls[j].arg /= calls[k].arg

\* the last operation was a CreateWorkspace in which the worktree of every
\* repository was added
AllWorktreesCreated ==
    /\ last.op = "create"
    /\ \A r \in Repos : \E j \in DOMAIN calls :
          calls[j].op = "WorktreeAdd" /\ calls[j].repo = r /\ calls[j].ok

\* C16: a failing post-create hook never rolls the workspace back: when all
\* worktrees were created CreateWorkspace returns success, the directory and
\* every worktree exist, no worktree was removed, and every hook whose
\* directory exists was run, in order, however many of them failed.
C16_HookFailureKeepsWorkspace ==
    AllWorktreesCreated =>
        /\ last.err = NoErr
        /\ last.ws \in wsDirs
        /\ \A r \in Repos : <<last.ws, r>> \in wtDirs /\ last.ws \in worktrees[r]
        /\ \A j \in DOMAIN calls : calls[j].op = "WorktreeAdd"
        /\ {hooksRun[j].hook : j \in DOMAIN hooksRun}
              = {h \in DOMAIN PostCreate : PostCreate[h] \in Repos}
        /\ \A j, k \in DOMAIN hooksRun : j < k => hooksRun[j].hook < hooksRun[k].hook

\* C16 witness: several hooks ran and every one of them failed
C16_Witness ==
    /\ AllWorktreesCreated
    /\ Len(hooksRun) > 1
    /\ \A j \in DOMAIN hooksRun : ~hooksRun[j].ok

\* C17: in an apply run over a profile the repositories are visited strictly
\* in profile order, and a rejection or failure of one repository's
\* transaction never keeps a later repository's from being attempted: every
\* selected repository gets the outcome, and ends in the state, it would get
\* if it were applied alone.
C17_BatchContinuesInProfileOrder ==
    [][(last'.op = "applyBatch" /\ last'.method /= "") =>
        /\ batchErr' = NoErr
        /\ Len(batchLog') = MaxBatch
        /\ \A i \in BatchRepos :
              /\ batchLog'[i].repo = i
              /\ IF batchSel' /= {} /\ i \notin batchSel'
                 THEN batchLog'[i].outcome = "not selected" /\ batch'[i] = batch[i]
                 ELSE LET alone == applyRepo(batch[i], last'.method, last'.base)
                      IN batchLog'[i].outcome = alone.outcome /\ batch'[i] = alone.g]_vars

\* C17 witness: the first repository's transaction failed in the backend and
\* was rolled back, and the last repository's was then applied
C17_Witness ==
    /\ last.op = "applyBatch" /\ Len(batchLog) = MaxBatch
    /\ batchLog[1].outcome \in {"stash apply failed", "merge apply failed"}
    /\ batchLog[MaxBatch].outcome = "applied"

\* the rollback steps among cs, the calls of a failed transaction: the
\* mutating calls made after the first forward step that failed
RollbackSteps(cs) ==
    {k \in DOMAIN cs :
        /\ cs[k].op \in Mutating
        /\ \E j \in 1..(k - 1) : cs[j].op \in Mutating /\ ~cs[j].ok}

\* C18: when a rollback step of an Apply transaction itself fails (checkout
\* back, branch delete, stash pop), the failure is passed on to the caller
\* with the original error, never discarded; and no rollback step is made a
\* second time.
C18_RollbackFailureReported ==
    [][(last'.op \in ApplyOps /\ last'.err /= NoErr) =>
        /\ \A k \in RollbackSteps(calls') : ~calls'[k].ok => calls'[k].heard
        /\ \A j, k \in RollbackSteps(calls') :
              (calls'[j].op = calls'[k].op /\ calls'[j].arg = calls'[k].arg) => j = k]_vars

\* C19: the merge-integrate legality decision is made from a real
\* ahead-count: when the ahead/behind computation fails for a repository, the
\* zero put in its place does not make the guard turn merge-integrate down as
\* having no commits ahead.
C19_MergeGuardUsesRealCount ==
    [][(last'.op = "applyBatch" /\ last'.method = "merge") =>
        \A i \in BatchRepos :
            (/\ batchLog'[i].outcome /= "not selected"
             /\ ~AheadBehind(batch[i], GetDefaultBase(ApplyDefaultBase), WtBranch).ok)
                => batchLog'[i].outcome /= "no commits ahead"]_vars

\* C20: a status report shows ahead = 0 and behind = 0 for a repository
\* whose ahead/behind count fails; the failure costs neither that repository
\* nor any other its line, the report itself does not fail, and every count
\* is taken in the origin repository's path.
StatusOps == {"status", "ListWorkspaces"}

C20_CountFailureReportedAsZero ==
    [][last'.op \in StatusOps =>
        /\ last'.err = NoErr
        /\ Len(report') = MaxBatch
        /\ \A i \in BatchRepos :
              LET ab == AheadBehind(batch[i], GetDefaultBase(ApplyDefaultBase), WtBranch)
              IN /\ report'[i].repo = i
                 /\ report'[i].exists = batch[i].wt
                 /\ batch[i].wt =>
                       /\ report'[i].shown
                       /\ report'[i].ahead = (IF ab.ok THEN ab.ahead ELSE 0)
                       /\ report'[i].behind = (IF ab.ok THEN ab.behind ELSE 0)
        /\ \A k \in DOMAIN calls' :
              calls'[k].op = "AheadBehind" => calls'[k].arg = "repo.Path"]_vars

\* a report over a repository whose count failed and one that is ahead
C20_Witness ==
    /\ last.op \in StatusOps
    /\ \E i, j \in BatchRepos :
          /\ batch[i].wt
          /\ ~AheadBehind(batch[i], GetDefaultBase(ApplyDefaultBase), WtBranch).ok
          /\ report[i].shown /\ report[i].ahead = 0 /\ report[i].behind = 0
          /\ j /= i /\ report[j].shown /\ report[j].ahead > 0

\* C21: a merge-integrate transaction, whether it succeeds or fails at any
\* step, leaves the worktree unchanged: its change set, its checked-out
\* branch (which still exists, with the same history) and the stash list are
\* after the call what they were before it.
C21_MergeLeavesWorktreeUnchanged ==
    [][(last'.op \in ApplyOps /\ last'.method = "merge") =>
        /\ wtExists' = wtExists
        /\ wtChanges' = wtChanges
        /\ wtUnmerged' = wtUnmerged
        /\ stash' = stash
        /\ (WtBranch \in oBranches') = (WtBranch \in oBranches)
        /\ tips'[WtBranch] = tips[WtBranch]]_vars

\* C21 witness: the merge step ran in the origin (and succeeded or failed)
\* while the worktree had uncommitted changes and a stash entry
C21_Witness ==
    /\ last.op \in ApplyOps /\ last.method = "merge"
    /\ \E j \in DOMAIN calls : calls[j].op = "Merge"
    /\ wtChanges /= {} /\ stash /= <<>>

\* C22: when branch creation in the origin fails during stash-transfer, the
\* stash is popped back in the worktree (its change set and the stash list
\* are what they were before the call) and the origin is left exactly as
\* before the call: same current branch, same branches, same change set.
C22_CheckoutFailureRestoresAll ==
    [][(last'.op \in ApplyOps /\ last'.method = "stash"
        /\ last'.err.kind = "checkout -b failed") =>
        /\ oHead' = oHead /\ oBranches' = oBranches /\ tips' = tips
        /\ oChanges' = oChanges /\ oUnmerged' = oUnmerged
        /\ wtChanges' = wtChanges /\ wtUnmerged' = wtUnmerged
        /\ stash' = stash]_vars

\* C23: in stash-transfer the only stash entry the transaction applies, pops
\* or drops is the one its own step 1 created: every entry that was in the
\* stash list before the call is still there after it, in the same place
\* from the bottom, whether the call succeeds or rolls back.
C23_OlderStashEntriesUntouched ==
    [][(last'.op \in ApplyOps /\ last'.method = "stash") =>
        /\ Len(stash') >= Len(stash)
        /\ SubSeq(stash', Len(stash') - Len(stash) + 1, Len(stash')) = stash]_vars

\* C24: after a successful stash-transfer the stash entry the transaction
\* created no longer exists: the stash list is what it was before the call.
C24_SuccessfulStashLeavesNoEntry ==
    [][(last'.op \in ApplyOps /\ last'.method = "stash" /\ last'.outcome = "applied") =>
        stash' = stash]_vars

\* the calls an operation made after its call number k
CallsAfter(cs, k) == SubSeq(cs, k + 1, Len(cs))

ReturnFailed(cs) ==
    {j \in DOMAIN cs :
        /\ cs[j].op = "CheckoutBranch" /\ ~cs[j].ok
        /\ \E k \in 1..(j - 1) : cs[k].op = "Merge" /\ cs[k].ok}

C26_ReturnFailureIsWarning ==
    [][(last'.method = "merge" /\ ReturnFailed(calls') /= {}) =>
        /\ last'.err = NoErr
        /\ last'.outcome = "applied"
        /\ \A j \in ReturnFailed(calls') : calls'[j].heard /\ j = Len(calls')
        /\ last'.newBranch \in oBranches'
        /\ tips'[last'.newBranch] = tips[last'.base] \cup tips[WtBranch]]_vars

\* C26 witness: the worktree's commit was merged into newBranch, the return
\* to main failed, and the call reported success with the origin on newBranch
C26_Witness ==
    /\ last.method = "merge" /\ last.outcome = "applied"
    /\ ReturnFailed(calls) /= {}
    /\ oHead = last.newBranch
    /\ "cw" \in tips[last.newBranch]

\* the repositories for which the operation's call op failed
FailedAt(cs, op) == {cs[k].repo : k \in {j \in DOMAIN cs : cs[j].op = op /\ ~cs[j].ok}}

\* C27: in RemoveWorkspace with deleteBranch set, a branch that cannot be
\* deleted in a repository whose worktree was removed does not abort the
\* operation: every other repository with a worktree directory is still
\* processed (its worktree removal is attempted, and its branch deletion
\* after a removal that worked), the workspace directory is removed, and
\* RemoveWorkspace returns success.
C27_BranchDeleteFailureContinues ==
    [][(last'.op = "remove" /\ last'.deleteBranch
        /\ FailedAt(calls', "BranchDelete") /= {}) =>
        /\ last'.err = NoErr
        /\ last'.ws \notin wsDirs'
        /\ \A r \in FailedAt(calls', "BranchDelete") : last'.ws \notin worktrees'[r]
        /\ \A r \in Repos : <<last'.ws, r>> \in wtDirs =>
              /\ \E k \in DOMAIN calls' :
                    calls'[k].op = "WorktreeRemove" /\ calls'[k].repo = r
              /\ r \notin FailedAt(calls', "WorktreeRemove") =>
                    \E k \in DOMAIN calls' :
                        calls'[k].op = "BranchDelete" /\ calls'[k].repo = r]_vars

\* C27 witness: the branch of the first repository had unmerged commits and
\* was kept, the last repository's was deleted after it, and the directory
\* is gone
C27_Witness ==
    /\ last.op = "remove" /\ last.deleteBranch /\ last.err = NoErr
    /\ 1 \in FailedAt(calls, "BranchDelete")
    /\ \E k \in DOMAIN calls :
          calls[k].op = "BranchDelete" /\ calls[k].repo = MaxRepos /\ calls[k].ok
    /\ last.ws \in branches[1] /\ last.ws \notin branches[MaxRepos]
    /\ last.ws \notin wsDirs

\* C28: CreateWorkspace called when a directory already exists at the
\* workspace path returns an error and changes nothing: no backend call is
\* made (no worktree or branch is added, the failure cleanup is not run), no
\* hook runs, and the existing directory, its worktrees and their contents
\* are as they were.
C28_CreateOnExistingChangesNothing ==
    [][(last'.op = "create" /\ last'.ws \in wsDirs) =>
        /\ last'.err.kind = "exists"
        /\ calls' = <<>>
        /\ hooksRun' = <<>>
        /\ UNCHANGED <<wsDirs, wtDirs, worktrees, locked, branches, wtHeads, changed,
                       aheadBrs>>]_vars

\* C28 witness: the existing workspace holds a worktree with uncommitted
\* changes for every repository, all still there after the refused call
C28_Witness ==
    /\ last.op = "create" /\ last.err.kind = "exists"
    /\ last.ws \in wsDirs
    /\ \A r \in Repos : <<last.ws, r>> \in wtDirs /\ <<last.ws, r>> \in changed

\* C29: RemoveWorkspace called for a workspace whose directory does not
\* exist returns an error and makes no backend call: no worktree is removed
\* and no branch is deleted in any repository, whatever deleteBranch and
\* force are.
C29_RemoveOfMissingDoesNothing ==
    [][(last'.op = "remove" /\ last'.ws \notin wsDirs) =>
        /\ last'.err.kind = "notfound"
        /\ calls' = <<>>
        /\ UNCHANGED <<wsDirs, wtDirs, worktrees, locked, branches, wtHeads, changed,
                       aheadBrs>>]_vars

\* C29 witness: the call asked for branch deletion with force while a branch
\* named like the workspace, and a registered worktree, were still there
C29_Witness ==
    /\ last.op = "remove" /\ last.err.kind = "notfound"
    /\ last.deleteBranch /\ last.force
    /\ \E r \in Repos : last.ws \in branches[r] /\ last.ws \in worktrees[r]

\* the WorktreeAdd calls among the calls of an operation, in order
WorktreeAdds(cs) == SelectSeq(cs, LAMBDA c : c.op = "WorktreeAdd")

\* the base the specification gives repository r under the map bm
SpecBase(bm, r) ==
    IF r \in DOMAIN bm THEN bm[r]
    ELSE IF RepoDefaultBase(r) = "" THEN "main" ELSE RepoDefaultBase(r)

\* C30: CreateWorkspace creates the worktrees one repository at a time in
\* profile order, each at <workspace>/<repository>, branching from the
\* repository's entry in baseBranches when there is one and from its default
\* base otherwise ("main" when none is configured); after a failure at
\* repository k no worktree creation is attempted for k+1..n.  Stated for
\* every workspace name not in use and every baseBranches map, in every
\* reachable state.
C30_WorktreesInProfileOrder ==
    \A ws \in WsNames \ wsDirs : \A bm \in BaseMaps :
        LET out == CreateWorkspace(WsState, ws, bm, {})
            adds == WorktreeAdds(out.calls)
            n == Len(adds)
        IN /\ n \in 1..MaxRepos
           /\ \A k \in 1..n :
                 /\ adds[k].repo = k
                 /\ adds[k].arg = SpecBase(bm, k)
                 /\ adds[k].ok <=> WorktreeAddOk(WsState, k, ws, ws, SpecBase(bm, k))
                 /\ k < n => adds[k].ok
           /\ n < MaxRepos => ~adds[n].ok
           /\ adds[n].ok => \A r \in Repos : <<ws, r>> \in out.s.wt
           /\ out.err = (IF adds[n].ok THEN NoErr ELSE Err("worktree", n))

\* C30 witness: a creation was given a base for the first repository that
\* names no branch there; it failed at that repository and attempted no
\* other
C30_Witness ==
    /\ CreateFailed(last) /\ last.err.repo = 1
    /\ WorktreeAdds(calls) = <<Call("WorktreeAdd", 1, "gone", FALSE)>>
    /\ MaxRepos > 1

\* the position of the one failed WorktreeAdd among an operation's calls
\* (0 if none failed)
FailedAdd(cs) ==
    IF \E j \in DOMAIN cs : cs[j].op = "WorktreeAdd" /\ ~cs[j].ok
    THEN CHOOSE j \in DOMAIN cs : cs[j].op = "WorktreeAdd" /\ ~cs[j].ok
    ELSE 0

\* C31: when worktree creation fails for repository k, CreateWorkspace tears
\* down the worktrees of repositories 1..k-1 (each was added by the call and
\* is removed again, directory and registration) and removes the workspace
\* directory before returning; the error returned is the worktree-creation
\* error of repository k, and the results of the cleanup steps are dropped.
C31_CleanupThenOriginalError ==
    [][(last'.op = "create" /\ FailedAdd(calls') /= 0) =>
        LET f == FailedAdd(calls')
            k == calls'[f].repo
        IN /\ last'.err = Err("worktree", k)
           /\ \A r \in 1..(k - 1) :
                 /\ \E j \in 1..(f - 1) :
                       calls'[j].op = "WorktreeAdd" /\ calls'[j].repo = r /\ calls'[j].ok
                 /\ \E j \in (f + 1)..Len(calls') :
                       calls'[j].op = "WorktreeRemove" /\ calls'[j].repo = r
                 /\ last'.ws \notin worktrees'[r]
                 /\ <<last'.ws, r>> \notin wtDirs'
           /\ last'.ws \notin wsDirs'
           /\ calls'[Len(calls')].op = "RemoveAll"
           /\ \A j \in (f + 1)..Len(calls') : ~calls'[j].heard]_vars

\* C31 witness: the last repository's worktree could not be created; the
\* worktree of the first had been, and was torn down with the directory
C31_Witness ==
    /\ last.op = "create" /\ last.err = Err("worktree", MaxRepos)
    /\ FailedAdd(calls) = MaxRepos
    /\ \E j \in DOMAIN calls :
          calls[j].op = "WorktreeRemove" /\ calls[j].repo = 1 /\ ~calls[j].heard
    /\ last.ws \notin wsDirs /\ last.ws \notin worktrees[1]

\* C32: post-create hooks run only after worktree creation has succeeded for
\* every repository of the profile: a CreateWorkspace that returns an error
\* has run no hook, a run with hooks has added every repository's worktree,
\* and each hook that runs has the worktree of its repository as working
\* directory.
C32_HooksOnlyAfterAllWorktrees ==
    [][last'.op = "create" =>
        /\ last'.err /= NoErr => hooksRun' = <<>>
        /\ hooksRun' /= <<>> =>
              \A r \in Repos :
                  /\ \E j \in DOMAIN calls' :
                        calls'[j].op = "WorktreeAdd" /\ calls'[j].repo = r /\ calls'[j].ok
                  /\ <<last'.ws, r>> \in wtDirs'
        /\ \A j \in DOMAIN hooksRun' :
              /\ PostCreate[hooksRun'[j].hook] \in Repos
              /\ hooksRun'[j].dir = <<last'.ws, PostCreate[hooksRun'[j].hook]>>
              /\ hooksRun'[j].dir \in wtDirs']_vars

\* C32 witness: the first repository has a hook and its worktree was
\* created, a later repository's was not, and no hook ran
C32_Witness ==
    /\ last.op = "create" /\ last.err.kind = "worktree" /\ last.err.repo > 1
    /\ PostCreate[1] = 1
    /\ \E j \in DOMAIN calls : calls[j].op = "WorktreeAdd" /\ calls[j].repo = 1 /\ calls[j].ok
    /\ hooksRun = <<>>

\* C33: in an apply run over the profile a repository whose worktree
\* directory is missing is skipped before any mutation: it is reported as
\* "worktree not found", no backend call is made for it, and its origin
\* (branches, checked-out branch, change set, stash list) is left as it was.
C33_MissingWorktreeSkipped ==
    [][last'.op = "applyBatch" =>
        \A i \in BatchRepos : ~batch[i].wt =>
            /\ batch'[i] = batch[i]
            /\ applyRepo(batch[i], last'.method, last'.base).calls = <<>>
            /\ (i \in DOMAIN batchLog' /\ batchLog'[i].outcome /= "not selected")
                  => batchLog'[i].outcome = "worktree not found"]_vars

\* C33 witness: the first repository had no worktree and was skipped, and
\* the run went on to apply the second
C33_Witness ==
    /\ last.op = "applyBatch"
    /\ Len(batchLog) = MaxBatch
    /\ batchLog[1].outcome = "worktree not found" /\ ~batch[1].wt
    /\ batch[1].brs = OriginBranches /\ batch[1].head = "main"
    /\ batchLog[MaxBatch].outcome = "applied"

\* the calls that change a repository, a worktree or the stash list
BackendSteps == Mutating \cup {"WorktreeAdd", "WorktreeRemove"}

\* two calls are the same step of an operation: the same primitive for the
\* same repository (a stash pop also in the same place)
SameStep(c, d) ==
    /\ c.op = d.op
    /\ c.repo = d.repo
    /\ c.op = "StashPop" => c.arg = d.arg

\* C34: no backend operation is retried: among the calls of one Apply
\* transaction each forward step and each rollback step occurs at most once,
\* and among the calls of one CreateWorkspace or RemoveWorkspace each
\* repository's worktree add, worktree remove and branch delete occurs at
\* most once.
C34_NoStepRetried ==
    [][last'.op /= "user" =>
        \A j, k \in DOMAIN calls' :
            (calls'[j].op \in BackendSteps /\ SameStep(calls'[j], calls'[k])) => j = k]_vars

\* C34 witness: a merge failed and was rolled back, with one merge, one
\* checkout back and one branch deletion among the calls
C34_Witness ==
    /\ last.op \in ApplyOps /\ last.err.kind = "merge failed"
    /\ Cardinality({j \in DOMAIN calls : calls[j].op = "Merge"}) = 1
    /\ Cardinality({j \in DOMAIN calls : calls[j].op = "CheckoutBranch"}) = 1
    /\ Cardinality({j \in DOMAIN calls : calls[j].op = "BranchDelete"}) = 1

\* C35: whenever RemoveWorkspace returns success, no worktree of that
\* workspace remains registered with any repository's origin.
C35_RemovedWorkspaceLeavesNoRegistration ==
    [][(last'.op = "remove" /\ last'.err = NoErr) =>
        \A r \in Repos : last'.ws \notin worktrees'[r]]_vars

\* the positions among an operation's calls of the calls of op for repository r
CallsFor(cs, op, r) == {j \in DOMAIN cs : cs[j].op = op /\ cs[j].repo = r}

\* RemoveWorkspace in the states where the developer has deleted the
\* directory of the worktree <ws>/<r> by hand, and where git worktree prune
\* has then dropped its registration: repository r is passed over
MissingDirPassedOver(ws, deleteBranch, force) ==
    \A r \in Repos :
        LET s0 == [WsState EXCEPT !.wt = @ \ {<<ws, r>>}, !.chg = @ \ {<<ws, r>>}]
            s1 == [s0 EXCEPT !.reg[r] = @ \ {ws}, !.lock[r] = @ \ {ws},
                             !.head = {h \in @ : ~(h[1] = ws /\ h[2] = r)}]
        IN \A s \in {s0, s1} :
               LET out == RemoveWorkspace(s, ws, deleteBranch, force)
               IN /\ out.s.br[r] = s.br[r]
                  /\ \A j \in DOMAIN out.calls : out.calls[j].repo /= r

\* C36: RemoveWorkspace deletes a repository's workspace branch only when
\* deleteBranch is set and only after that repository's worktree removal
\* succeeded, and it deletes no other branch; with deleteBranch unset, or
\* for a repository whose worktree directory is missing or whose worktree
\* removal failed, no branch deletion is asked for and the branches of that
\* repository's origin are unchanged.
C36_BranchDeletedOnlyAfterRemoval ==
    [][last'.op = "remove" =>
         /\ last'.ws \in wsDirs =>
                MissingDirPassedOver(last'.ws, last'.deleteBranch, last'.force)
         /\ \A r \in Repos :
                LET rmOk == {j \in CallsFor(calls', "WorktreeRemove", r) : calls'[j].ok}
                    bd == CallsFor(calls', "BranchDelete", r)
                IN /\ bd /= {} =>
                        /\ last'.deleteBranch
                        /\ \A k \in bd : \E j \in rmOk : j < k
                        /\ \A k \in bd : calls'[k].arg = last'.ws
                   /\ branches'[r] /= branches[r] =>
                        /\ bd /= {}
                        /\ branches'[r] = branches[r] \ {last'.ws}
                   /\ (~last'.deleteBranch \/ <<last'.ws, r>> \notin wtDirs \/ rmOk = {}) =>
                        /\ bd = {}
                        /\ branches'[r] = branches[r]]_vars

\* C36 witness: deleteBranch was set; the first repository's worktree was
\* locked and its branch was kept without a deletion attempt, the last
\* repository's worktree was removed and its branch deleted
C36_Witness ==
    /\ last.op = "remove" /\ last.deleteBranch
    /\ \E j \in CallsFor(calls, "WorktreeRemove", 1) : ~calls[j].ok
    /\ CallsFor(calls, "BranchDelete", 1) = {}
    /\ last.ws \in branches[1]
    /\ \E j \in CallsFor(calls, "BranchDelete", MaxRepos) : calls[j].ok
    /\ last.ws \notin branches[MaxRepos]

\* C37: from a configuration whose repository names are unique within each
\* profile, after every AddProfile, AddRepoToProfile and
\* RemoveRepoFromProfile call the names are still unique within each
\* profile; a call that returns an error leaves the configuration unchanged;
\* a successful RemoveRepoFromProfile removes exactly the named repository
\* and keeps the others in their relative order.
C37_ConfigStaysWellFormed ==
    [][/\ NamesUnique(profiles')
       /\ cfgLast'.err /= "nil" => profiles' = profiles
       /\ (cfgLast'.op = "RemoveRepoFromProfile" /\ cfgLast'.err = "nil") =>
            /\ DOMAIN profiles' = DOMAIN profiles
            /\ \A p \in DOMAIN profiles \ {cfgLast'.profile} : profiles'[p] = profiles[p]
            /\ Len(profiles'[cfgLast'.profile]) = Len(profiles[cfgLast'.profile]) - 1
            /\ profiles'[cfgLast'.profile] =
                   SelectSeq(profiles[cfgLast'.profile],
                             LAMBDA r : r.Name /= cfgLast'.repo)]_vars

\* how often x occurs in the list l
Occurrences(l, x) == Cardinality({i \in DOMAIN l : l[i] = x})

\* the list l without the item x
Without(l, x) == SelectSeq(l, LAMBDA item : item /= x)

C39_LabelRoundTrip ==
    parsed.done =>
        LET parts == Fields(label)
        IN /\ (wsInfo /= NoWorkspace /\ label = WorkspaceLabels(<<wsInfo>>)[1]) =>
                /\ parsed.err = "nil"
                /\ parsed.profileName = wsInfo.ProfileName
                /\ parsed.workspaceName = wsInfo.WorkspaceName
           /\ (label = <<>> \/ parts = <<>>) => parsed.err /= "nil"
           /\ (parts /= <<>> /\ \A i \in DOMAIN parts[1] : parts[1][i] /= "/") =>
                parsed.err /= "nil"
           /\ (parts /= <<>> /\ \E i \in DOMAIN parts[1] : parts[1][i] = "/") =>
                /\ parsed.err = "nil"
                /\ \A i \in DOMAIN parsed.profileName : parsed.profileName[i] /= "/"
                /\ parsed.profileName \o <<"/">> \o parsed.workspaceName = parts[1]

====
